---- MODULE Spec2Model ----
(***************************************************************************)
(* ZSSP (ZeroTier Secure Session Protocol): the session state machine of   *)
(* src/src/zeta.rs, the context dispatch of src/src/zssp.rs and the        *)
(* unassociated-handshake cache of src/src/handshake_cache.rs.             *)
(*                                                                         *)
(* One initiator context ("alice", one session) talks to one responder     *)
(* context ("bob", sessions created on X3).  Cryptography is symbolic: a   *)
(* Noise handshake or rekey that completes yields an "epoch" number; the   *)
(* keys kek/nk of an epoch are named <<epoch, sender, kind>>, and an AEAD  *)
(* tag verifies iff the receiver holds the key the sender used.  Every      *)
(* timer is kept as its offset from ApplicationLayer::time (deadline minus *)
(* current time, in units of resend_time): the code only compares timers    *)
(* with the current time and with each other, so an offset below -1 is      *)
(* kept as -1.                                                              *)
(***************************************************************************)
EXTENDS Integers, Sequences, FiniteSets, TLC

\* ---------------------------------------------------------------- bounds
MaxKid == 2
MaxAtt == 3
MaxEpoch == 2
MaxCounter == 3
MaxLoadCounter == 5
MaxTicks == 4
NBobSessions == 2
NThreads == 2

\* ------------------------------------------------- program constants
\* proto.rs constants and Settings, scaled to the model's units.
INIT_COUNTER == 0
COUNTER_WINDOW_MAX_OOO == 2
COUNTER_WINDOW_MAX_SKIP_AHEAD == 4
MAX_UNASSOCIATED_HANDSHAKE_STATES == 2
REKEY_AFTER_KEY_USES == 1
EXPIRE_AFTER_USES == 4
ResendTime == 1
InitialOfferTimeout == 3
INITIAL_OFFER_TIMEOUT_MS == 1
RekeyTimeout == 3
RekeyAfterTime == 3
RekeyTimeMaxJitter == 1
\* i64::MAX and i64::MIN as timer values.
TimerMax == 1000
TimerMin == -1000

Ctx == {"alice", "bob"}
Peer(p) == IF p = "alice" THEN "bob" ELSE "alice"
Kids == 1..MaxKid
NSess == 1 + NBobSessions
Sess == 1..NSess
Owner(s) == IF s = 1 THEN "alice" ELSE "bob"
BobSess == 2..NSess
Slots == 1..MAX_UNASSOCIATED_HANDSHAKE_STATES
Threads == 1..NThreads

VARIABLES
    sessions,       \* Session / MutableState of every session object
    session_map,    \* ContextInner::session_map, per context: kid -> session (0: absent)
    cache,          \* bob's UnassociatedHandshakeCache: slot -> (local_id, timeout, StateB2)
    has_pending,    \* UnassociatedHandshakeCache::has_pending
    store,          \* the application's persisted ratchet states, per context
    net,            \* every packet handed to a send callback so far
    nextAtt,        \* next initiator ephemeral (A1 / R1 noise state) number
    nextEpoch,      \* next responder ephemeral (StateB2 / K2) number
    enc_log,        \* every (key, nonce) passed to AEAD-Encrypt under a session key
    nonce_reused,   \* an AEAD-Encrypt call repeated a (key, nonce) of enc_log
    ret,            \* what the last call returned
    service_pc,     \* Context::service: "idle" or inside the queue loop
    thr,            \* bob's receive calls in progress on an unassociated X3
    hist            \* history of the checked properties (see each claim)

vars == <<sessions, session_map, cache, has_pending, store, net, nextAtt,
          nextEpoch, enc_log, nonce_reused, ret, service_pc, thr, hist>>

\* ------------------------------------------------------- ratchet states
\* RatchetState: Null, Empty or NonEmpty{key, fingerprint, chain_len}.  Key and
\* fingerprint of a NonEmpty state are both derived from one transcript, named id.
RNull == [t |-> "Null", id |-> 0, chain_len |-> 0]
REmpty == [t |-> "Empty", id |-> 0, chain_len |-> 0]
RNonEmpty(id, n) == [t |-> "NonEmpty", id |-> id, chain_len |-> n]
\* RatchetState::fingerprint: 0 stands for None.
Fingerprint(rs) == IF rs.t = "NonEmpty" THEN rs.id ELSE 0
\* RatchetState::key: -1 stands for None, 0 for the all-zero key.
RKey(rs) == IF rs.t = "Null" THEN -1 ELSE IF rs.t = "Empty" THEN 0 ELSE rs.id
\* create_ratchet_state: the ratchet of transcript ep, one longer than the chain
\* (create_ratchet_state_reset: of chain length 1 whatever the chain).
create_ratchet_state_reset(ep, pre_chain_len) == RNonEmpty(ep, 1)
create_ratchet_state(ep, pre_chain_len) == RNonEmpty(ep, pre_chain_len + 1)
\* RatchetState::new_initial_states
new_initial_states == [state1 |-> REmpty, state2 |-> RNull]

\* ----------------------------------------------------------- key slots
NoKeys == [recv_kid |-> 0, send_kid |-> 0, ek |-> 0]
\* MutableState::key_ref / key_mut: the slot index selected by is_next
\* (KeyIdx_next: the next slot whatever is_next).
KeyIdx_next(st, is_next) == 1 - st.key_index
KeyIdx(st, is_next) == IF is_next THEN 1 - st.key_index ELSE st.key_index
key_ref(st, is_next) == st.keys[KeyIdx(st, is_next)]
\* MutableState::next_timer
next_timer_never(st) == TimerMax
next_timer(st) == IF st.timeout_timer < st.resend_timer THEN st.timeout_timer ELSE st.resend_timer

\* ------------------------------------------------------- anti-replay
WindowNew == [i \in 0..(COUNTER_WINDOW_MAX_OOO - 1) |-> 0]
\* Window::check: side-effect-free test of counter c against its slot
\* (WindowCheck_open: a window that accepts every counter).
WindowCheck_open(w, c) == TRUE
WindowCheck(w, c) ==
    LET prev == w[c % COUNTER_WINDOW_MAX_OOO]
    IN  prev < c + 1 /\ c + 1 <= prev + COUNTER_WINDOW_MAX_SKIP_AHEAD
\* Window::update / update_counter_window: the window after c was accepted.
WindowUpdate(w, c) == [w EXCEPT ![c % COUNTER_WINDOW_MAX_OOO] = c + 1]

\* The session a handler leaves behind when decrypt_in_place returned false on a
\* packet with counter c: it returns FailedAuth before update_counter_window
\* (tag_failed_updated: the window is updated before the tag is verified).
tag_failed_updated(st, c) == [st EXCEPT !.window = WindowUpdate(st.window, c)]
tag_failed(st, c) == st

\* ------------------------------------------------------------ packets
\* type: X1 X2 X3 C1 C2 K1 K2 D DATA.  to: destination context.  kid: header key
\* id.  c: header counter.  key: epoch of the kek/nk the packet is sealed with.
\* att / ep: the initiator / responder ephemeral of the Noise message inside.
\* psk: ratchet key mixed in.  nkid: the key id carried as payload.
Pkt(type, to, kid, c, key, att, ep, psk, nkid, fp1, fp2) ==
    [type |-> type, to |-> to, kid |-> kid, c |-> c, key |-> key, att |-> att,
     ep |-> ep, psk |-> psk, nkid |-> nkid, fp1 |-> fp1, fp2 |-> fp2]
PACKET_TYPE_USES_COUNTER_RANGE == {"C1", "C2", "K1", "K2", "D", "DATA"}
KeyKind(type) == IF type = "DATA" THEN "nk" ELSE "kek"
\* The (key, nonce) of an AEAD-Encrypt call by context p: to_nonce(type, c).
Enc(p, ek, type, c) == [key |-> <<ek, p, KeyKind(type)>>, nonce |-> <<type, c>>]

\* Aead::decrypt_in_place on a session packet: the tag verifies iff the packet
\* was sealed under the key it is opened with (decrypt_in_place_fail: no tag
\* verifies).
decrypt_in_place_fail(key, pkt) == FALSE
decrypt_in_place(key, pkt) == pkt.key = key

\* No packet: the pkt of a call that is not a receive.
NoPkt == Pkt("none", "alice", 0, 0, 0, 0, 0, 0, 0, 0, 0)
\* What a call returned: the operation, the result (Ok variant or error) and,
\* for a ByzantineFault, its unnatural flag, with the context p that was called;
\* s and c are zero and pkt is NoPkt except for RetOf and RetSend.
Ret(op, p, s, res, unnatural) ==
    [op |-> op, p |-> p, res |-> res, unnatural |-> unnatural, s |-> 0, c |-> 0, pkt |-> NoPkt]
\* What receive returned for the packet pkt that resolved to session s (0 when it
\* resolved to none): the session, the packet and its counter are kept with the
\* result.
RetOf(pkt, s, res, unnatural) ==
    [op |-> pkt.type, p |-> pkt.to, res |-> res, unnatural |-> unnatural, s |-> s, c |-> pkt.c,
     pkt |-> pkt]
\* No call is returning.
NoRet == Ret("none", "alice", 0, "none", FALSE)

\* -------------------------------------------------------------- state
NoSession ==
    [exists |-> FALSE, held |-> FALSE, was_bob |-> FALSE, beta |-> "Null", att |-> 0,
     key_index |-> 0, keys |-> [i \in 0..1 |-> NoKeys],
     ratchet_state1 |-> RNull, ratchet_state2 |-> RNull,
     send_counter |-> 0, key_creation_counter |-> 0, window |-> WindowNew,
     resend_timer |-> TimerMax, timeout_timer |-> TimerMax, queued |-> FALSE, queue_timer |-> 0]

NoSlot == [local_id |-> 0, timeout |-> 0, b2 |-> 0, att |-> 0, ratchet_state |-> RNull, kid_send |-> 0]

\* A receive call of bob on an X3 for a key id no session is registered under:
\* "idle", "got" (get returned the StateB2 zeta) or "removed" (remove returned
\* true and received_x3_trans is to run on zeta).
NoCall == [pc |-> "idle", pkt |-> 0, zeta |-> NoSlot]
\* The calls, the StateB2s (by ephemeral) received_x3_trans was entered with,
\* and whether it was entered with one of them twice.
\* A call's way through the locks: the lock operations it has yet to reach
\* (path, from position pc on) and the guards it holds, oldest first.
NoPath == [path |-> <<>>, pc |-> 1, held |-> <<>>]
ThrInit == [at |-> [t \in Threads |-> NoCall], invoked |-> {}, twice |-> FALSE,
            lk |-> [t \in Threads |-> NoPath]]
\* The history of a run between honest peers (see HonestOn); off in the other runs.
HonestOff == [on |-> FALSE, used |-> [p \in Ctx |-> {}], seen |-> {}, ticks |-> 0]
HistInit ==
    [registered |-> [s \in Sess |-> {}], accepted |-> {}, replayed |-> FALSE,
     load |-> [p \in Ctx |-> "off"], handled |-> {}, aged |-> {}, honest |-> HonestOff]

Init ==
    /\ sessions = [s \in Sess |-> NoSession]
    /\ session_map = [p \in Ctx |-> [k \in Kids |-> 0]]
    /\ cache = [i \in Slots |-> NoSlot]
    /\ has_pending = FALSE
    /\ store = [p \in Ctx |-> new_initial_states]
    /\ net = {}
    /\ nextAtt = 1
    /\ nextEpoch = 1
    /\ enc_log = {}
    /\ nonce_reused = FALSE
    /\ ret = NoRet
    /\ service_pc = [p \in Ctx |-> "idle"]
    /\ thr = ThrInit
    /\ hist = HistInit

\* gen_kid: any non-zero key id absent from the session map (gen_kid_any:
\* any non-zero key id).
gen_kid_any(map) == Kids
gen_kid(map) == {k \in Kids : map[k] = 0}

\* History kept for the properties: every kid ever registered in a session map
\* for each session, every <<session, counter>> a handler accepted after
\* update_counter_window, and whether one was accepted twice.  The runs under
\* load also follow: load, whether context p called service since its last send
\* ("ready") or not ("sent"); handled, the <<destination, counter>> of every
\* packet a receive call was made with; aged, the ones that were in flight when
\* the clock last advanced.  In the other runs load stays "off" and the two
\* sets stay empty.
\* The key ids context p has in use: registered in its session map or, for bob,
\* the local id of a cache slot.
UsedKids(p) ==
    {k \in Kids : session_map[p][k] # 0 \/ (p = "bob" /\ \E i \in Slots : cache[i].local_id = k)}
UnderLoad == \E p \in Ctx : hist.load[p] # "off"
InFlight(handled) ==
    {<<q.to, q.c>> : q \in {r \in net : r.type \in PACKET_TYPE_USES_COUNTER_RANGE}} \ handled
\* The X1 packet of an A1 state (StateA1::packet).
X1Packet(st) ==
    Pkt("X1", "bob", 0, 0, 0, st.att, 0, 0, key_ref(st, TRUE).recv_kid,
        Fingerprint(st.ratchet_state1), Fingerprint(st.ratchet_state2))
\* The X3 packet of an A3 state (ZetaAutomata::A3::packet).
X3Packet(st) ==
    Pkt("X3", "bob", key_ref(st, TRUE).send_kid, 0, 0, st.att, key_ref(st, TRUE).ek, 0, 0, 0, 0)
\* The handshake packets a resend timer puts in flight once more in this step:
\* the X1 of a session in A1 or the X3 of one in A3, byte for byte the packet
\* sent before.
Resent ==
    {q \in net : \E s \in Sess :
        /\ sessions[s].beta \in {"A1", "A3"}
        /\ sessions'[s].beta = sessions[s].beta /\ sessions'[s].att = sessions[s].att
        /\ sessions[s].resend_timer <= 0 /\ sessions'[s].resend_timer = ResendTime
        /\ q = IF sessions[s].beta = "A1" THEN X1Packet(sessions[s]) ELSE X3Packet(sessions[s])}
GhostAt(acc, tick) ==
    hist' = [registered |-> [s \in Sess |-> hist.registered[s] \cup
                                {k \in Kids : session_map'[Owner(s)][k] = s}],
             accepted |-> hist.accepted \cup acc,
             replayed |-> (hist.replayed \/ (acc \cap hist.accepted # {})),
             load |-> [p \in Ctx |->
                        IF hist.load[p] = "off" \/ ret' = ret \/ ret'.p # p THEN hist.load[p]
                        ELSE IF ret'.op = "send" THEN "sent"
                        ELSE IF ret'.op = "service" THEN "ready"
                        ELSE hist.load[p]],
             handled |-> IF UnderLoad /\ ret' # ret /\ ret'.op \in PACKET_TYPE_USES_COUNTER_RANGE
                         THEN hist.handled \cup {<<ret'.p, ret'.c>>}
                         ELSE hist.handled,
             aged |-> IF UnderLoad /\ tick THEN InFlight(hist.handled) ELSE hist.aged,
             honest |-> IF ~hist.honest.on THEN hist.honest
                        ELSE [on |-> TRUE,
                              used |-> [p \in Ctx |-> hist.honest.used[p] \cup UsedKids(p)],
                              seen |-> IF /\ ret' # ret /\ ret'.pkt # NoPkt
                                          /\ \/ <<sessions', session_map'>> # <<sessions, session_map>>
                                             \/ ret'.res = "Unassociated"
                                       THEN hist.honest.seen \cup {ret'.pkt}
                                       ELSE hist.honest.seen \ Resent,
                              ticks |-> IF tick /\ hist.honest.ticks < MaxTicks
                                        THEN hist.honest.ticks + 1
                                        ELSE hist.honest.ticks]]
Ghost(acc) == GhostAt(acc, FALSE)

\* The bound on the send counters: the runs under load follow them further.
CounterCap == IF UnderLoad THEN MaxLoadCounter ELSE MaxCounter

\* No call is in progress: the last result was taken by the application and no
\* Context::service call is inside its queue loop.
Idle == ret = NoRet /\ \A p \in Ctx : service_pc[p] = "idle"

\* The application takes the result of the call that returned.
Return ==
    /\ ret # NoRet
    /\ UNCHANGED thr
    /\ \A p \in Ctx : service_pc[p] = "idle"
    /\ ret' = NoRet
    /\ UNCHANGED <<sessions, session_map, cache, has_pending, store, net, nextAtt,
                   nextEpoch, enc_log, nonce_reused, service_pc, hist>>

\* A timer offset after one unit of time: i64::MAX and i64::MIN stay, others fall to -1.
Elapse(r) == IF r \in {TimerMax, TimerMin} \/ r <= -1 THEN r ELSE r - 1
\* The clock advances by one unit.
Tick ==
    /\ Idle
    /\ UNCHANGED thr
    /\ sessions' = [s \in Sess |->
            IF sessions[s].exists
            THEN [sessions[s] EXCEPT !.resend_timer = Elapse(@), !.timeout_timer = Elapse(@),
                                     !.queue_timer = Elapse(@)]
            ELSE sessions[s]]
    /\ cache' = [i \in Slots |-> IF cache[i].local_id # 0
                                 THEN [cache[i] EXCEPT !.timeout = Elapse(@)] ELSE cache[i]]
    /\ <<sessions', cache'>> # <<sessions, cache>>
    /\ UNCHANGED <<session_map, has_pending, store, net, nextAtt,
                   nextEpoch, enc_log, nonce_reused, ret, service_pc>>
    /\ GhostAt({}, TRUE)

\* ------------------------------------------------------------- helpers
\* `zeta.send_counter += 1` after a packet took the counter c as its nonce
\* (NextSendCounter_same: the counter is not incremented).
NextSendCounter_same(c) == c
NextSendCounter(c) == c + 1
Send(pkts) == net' = net \cup pkts
\* An AEAD-Encrypt call under a session key: recorded, and flagged when it repeats.
LogEnc(encs) ==
    /\ enc_log' = enc_log \cup encs
    /\ nonce_reused' = (nonce_reused \/ (encs \cap enc_log # {}))
NoEnc == UNCHANGED <<enc_log, nonce_reused>>

\* save_ratchet_state returning Ok: the application stores the update's
\* state1 and state2 (SaveRatchet_lost: Ok is returned and nothing is stored).
SaveRatchet_lost(p, s1, s2) == UNCHANGED store
SaveRatchet_kept(p, s1, s2) ==
    store' = [store EXCEPT ![p] = [state1 |-> s1, state2 |-> IF s2 = RNull THEN store[p].state2 ELSE s2]]
SaveRatchet(p, s1, s2) == store' = [store EXCEPT ![p] = [state1 |-> s1, state2 |-> s2]]
\* restore_by_fingerprint: the persisted state with that fingerprint, or Null for None.
restore_by_fingerprint(p, fp) ==
    IF fp # 0 /\ Fingerprint(store[p].state1) = fp THEN store[p].state1
    ELSE IF fp # 0 /\ Fingerprint(store[p].state2) = fp THEN store[p].state2
    ELSE RNull

\* Session::expire (zeta.expire): the automaton becomes Null.
ExpireSess(st) == [st EXCEPT !.beta = "Null"]
\* Session::expire: the kid_recv of both key slots leave the session map.
ExpireMap(map, st) ==
    [k \in Kids |-> IF k \in {st.keys[0].recv_kid, st.keys[1].recv_kid} THEN 0 ELSE map[k]]

\* remap: the session map after the next slot's kid_recv was removed.
RemapRemoved(map, st) ==
    LET kid == key_ref(st, TRUE).recv_kid
    IN  IF kid # 0 THEN [map EXCEPT ![kid] = 0] ELSE map
\* remap: the weak reference that is re-inserted under the new kid.
RemapWeak(map, st, s) ==
    LET kid == key_ref(st, TRUE).recv_kid
    IN  IF kid # 0 /\ map[kid] # 0 THEN map[kid] ELSE s
\* remap: the session map with new_kid_recv registered (remap_keep: without
\* the removal of the next slot's kid_recv).
remap_keep(map, st, s, new_kid) == [map EXCEPT ![new_kid] = s]
remap(map, st, s, new_kid) ==
    [RemapRemoved(map, st) EXCEPT ![new_kid] = RemapWeak(map, st, s)]

\* A control packet sealed under the current slot's kek at counter c.
Control(type, p, st, c, att, ep, psk, nkid) ==
    Pkt(type, Peer(p), key_ref(st, FALSE).send_kid, c, key_ref(st, FALSE).ek, att, ep, psk, nkid, 0, 0)

\* The end of a loop iteration: change_priority to the session's next timer, or
\* removal from the queue when process_timers left the session Null.
Requeue_stale(st) == IF st.beta = "Null" THEN [st EXCEPT !.queued = FALSE] ELSE st
Requeue(st) ==
    IF st.beta = "Null" THEN [st EXCEPT !.queued = FALSE]
    ELSE [st EXCEPT !.queue_timer = next_timer(st)]

\* ------------------------------------------------------- timeout_trans
\* timeout_trans: the timeout rule of the session's state.  dh_ok is
\* the outcome of the ECDH agreements (create_a1_state / mix_dh); in_service
\* tells the call from the loop of Context::service, which requeues the
\* session afterwards, from the call on a fault of received_x2_trans.
TimeoutTrans(s, dh_ok, in_service) ==
    LET Q(st0) == IF in_service THEN Requeue(st0) ELSE st0
        st == sessions[s]
        p == Owner(s)
        map == session_map[p]
    IN
    IF st.beta = "Null" THEN
        /\ sessions' = [sessions EXCEPT ![s] = Q(st)]
        /\ UNCHANGED <<session_map, net, nextAtt, enc_log, nonce_reused>>
    ELSE IF st.beta \in {"A1", "A3"} THEN
        \E new_kid \in gen_kid(RemapRemoved(map, st)) :
            LET map1 == remap(map, st, s, new_kid) IN
            IF dh_ok THEN
                LET st1 == [st EXCEPT
                        !.keys[KeyIdx(st, TRUE)] = [NoKeys EXCEPT !.recv_kid = new_kid],
                        !.resend_timer = ResendTime,
                        !.timeout_timer = InitialOfferTimeout,
                        !.beta = "A1",
                        !.att = nextAtt]
                IN  /\ nextAtt <= MaxAtt
                    /\ nextAtt' = nextAtt + 1
                    /\ sessions' = [sessions EXCEPT ![s] = Q(st1)]
                    /\ session_map' = [session_map EXCEPT ![p] = map1]
                    /\ Send({X1Packet(st1)})
                    /\ NoEnc
            ELSE
                /\ sessions' = [sessions EXCEPT ![s] = Q(ExpireSess(st))]
                /\ session_map' = [session_map EXCEPT ![p] = ExpireMap(map1, st)]
                /\ UNCHANGED <<net, nextAtt>>
                /\ NoEnc
    ELSE IF st.beta = "S2" THEN
        \E new_kid \in gen_kid(RemapRemoved(map, st)) :
            LET map1 == remap(map, st, s, new_kid) IN
            IF dh_ok THEN
                LET c == st.send_counter
                    st1 == [st EXCEPT
                        !.keys[KeyIdx(st, TRUE)].recv_kid = new_kid,
                        !.timeout_timer = RekeyTimeout,
                        !.resend_timer = ResendTime,
                        !.beta = "R1",
                        !.att = nextAtt,
                        !.send_counter = NextSendCounter(c)]
                IN  /\ nextAtt <= MaxAtt
                    /\ c < CounterCap
                    /\ nextAtt' = nextAtt + 1
                    /\ sessions' = [sessions EXCEPT ![s] = Q(st1)]
                    /\ session_map' = [session_map EXCEPT ![p] = map1]
                    /\ LogEnc({Enc(p, key_ref(st, FALSE).ek, "K1", c)})
                    /\ Send({Control("K1", p, st1, c, nextAtt, 0, RKey(st.ratchet_state1), new_kid)})
            ELSE
                /\ sessions' = [sessions EXCEPT ![s] = Q(ExpireSess(st))]
                /\ session_map' = [session_map EXCEPT ![p] = ExpireMap(map1, st)]
                /\ UNCHANGED <<net, nextAtt>>
                /\ NoEnc
    ELSE
        \* S1, R1, R2
        /\ sessions' = [sessions EXCEPT ![s] = Q(ExpireSess(st))]
        /\ session_map' = [session_map EXCEPT ![p] = ExpireMap(map, st)]
        /\ UNCHANGED <<net, nextAtt>>
        /\ NoEnc

\* ------------------------------------------------------- Context::open
\* Context::open / trans_to_a1 by alice: a new session in A1, X1 emitted.
Open(storage_ok, dh_ok) ==
    LET s == 1 IN
    /\ Idle
    /\ UNCHANGED thr
    /\ ~sessions[s].exists
    /\ IF ~storage_ok THEN
            /\ ret' = Ret("open", "alice", 0, "StorageError", FALSE)
            /\ UNCHANGED <<sessions, session_map, net, nextAtt>>
       ELSE IF ~dh_ok THEN
            /\ ret' = Ret("open", "alice", 0, "InvalidPublicKey", FALSE)
            /\ UNCHANGED <<sessions, session_map, net, nextAtt>>
       ELSE \E kid_recv \in gen_kid(session_map["alice"]) :
            LET st0 == [NoSession EXCEPT
                    !.exists = TRUE, !.held = TRUE, !.was_bob = FALSE,
                    !.ratchet_state1 = store["alice"].state1,
                    !.ratchet_state2 = store["alice"].state2,
                    !.key_creation_counter = 0, !.key_index = 1,
                    !.resend_timer = ResendTime,
                    !.timeout_timer = InitialOfferTimeout,
                    !.beta = "A1", !.att = nextAtt]
                st1 == [st0 EXCEPT !.keys[KeyIdx(st0, TRUE)].recv_kid = kid_recv]
                st2 == [st1 EXCEPT !.queued = TRUE, !.queue_timer = next_timer(st1)]
            IN  /\ nextAtt <= MaxAtt
                /\ nextAtt' = nextAtt + 1
                /\ sessions' = [sessions EXCEPT ![s] = st2]
                /\ session_map' = [session_map EXCEPT !["alice"][kid_recv] = s]
                /\ Send({X1Packet(st2)})
                /\ ret' = Ret("open", "alice", s, "Ok", FALSE)
    /\ NoEnc
    /\ UNCHANGED <<cache, has_pending, store, nextEpoch, service_pc>>
    /\ Ghost({})


\* ----------------------------------------- UnassociatedHandshakeCache
RECURSIVE InsertScan(_, _, _)
\* insert: the slot index the loop selects; 0 when it returns early on a
\* duplicate id; the first slot when no slot is empty or expired.
InsertScan(c, local_id, i) ==
    IF i > MAX_UNASSOCIATED_HANDSHAKE_STATES THEN 1
    ELSE IF c[i].local_id = 0 \/ c[i].timeout < 0 THEN i
    ELSE IF c[i].local_id = local_id THEN 0
    ELSE InsertScan(c, local_id, i + 1)
\* UnassociatedHandshakeCache::insert
CacheInsert(c, local_id, state) ==
    LET idx == InsertScan(c, local_id, 1)
    IN  IF idx = 0 THEN c
        ELSE [c EXCEPT ![idx] = [state EXCEPT !.local_id = local_id,
                                              !.timeout = INITIAL_OFFER_TIMEOUT_MS]]
\* The first slot holding local_id, or 0.
CacheFind(c, local_id) ==
    IF \E i \in Slots : c[i].local_id = local_id
    THEN CHOOSE i \in Slots : c[i].local_id = local_id /\ \A j \in 1..(i - 1) : c[j].local_id # local_id
    ELSE 0
CacheRemove_keep(c, local_id) == c
\* UnassociatedHandshakeCache::remove
CacheRemove(c, local_id) ==
    LET i == CacheFind(c, local_id) IN IF i = 0 THEN c ELSE [c EXCEPT ![i] = NoSlot]
\* UnassociatedHandshakeCache::service: expired entries are cleared.
CacheService(c) ==
    [i \in Slots |-> IF c[i].local_id # 0 /\ c[i].timeout < 0 THEN NoSlot ELSE c[i]]

\* ---------------------------------------------------- Context::receive
\* The session a header kid resolves to (session map hit and Weak::upgrade), or 0.
Lookup(p, kid) ==
    IF kid = 0 THEN 0
    ELSE LET s == session_map[p][kid] IN IF s # 0 /\ sessions[s].held THEN s ELSE 0

\* The CHALLENGE packet that answers X1 pkt: a zero header and the X1's first
\* KID_SIZE bytes before the challenge (challenge_packet_x2: an X2 in its place).
challenge_packet_x2(pkt) == Pkt("X2", "alice", pkt.nkid, 0, 0, pkt.att, 0, 0, 0, 0, 0)
challenge_packet(pkt) == Pkt("CHALLENGE", "alice", 0, 0, 0, 0, 0, 0, pkt.nkid, 0, 0)

\* receive of an X1 (kid 0) by bob: the policy check, then received_x1_trans.
\* fault: the check that fails ("drop": incoming_session returns Drop;
\* "challenge": it returns Challenge and process_hello does not validate the
\* packet's response slot; "requires_ratchet": hello_requires_recognized_ratchet
\* returns true).
ReceiveX1(pkt, fault) ==
    LET p == "bob"
        r1 == restore_by_fingerprint(p, pkt.fp1)
        r2 == restore_by_fingerprint(p, pkt.fp2)
        found == IF r1.t # "Null" THEN r1 ELSE r2
        ratchet_state == IF found.t # "Null" THEN found ELSE REmpty
    IN
    /\ Idle
    /\ UNCHANGED thr
    /\ pkt \in net /\ pkt.type = "X1" /\ pkt.to = p
    /\ IF fault = "len" THEN
            /\ ret' = RetOf(pkt, 0, "InvalidPacket", TRUE)
            /\ UNCHANGED <<cache, has_pending, net, nextEpoch>>
       ELSE IF fault = "challenge" THEN
            /\ Send({challenge_packet(pkt)})
            /\ ret' = RetOf(pkt, 0, "FailedAuth", FALSE)
            /\ UNCHANGED <<cache, has_pending, nextEpoch>>
       ELSE IF fault = "drop" THEN
            /\ ret' = RetOf(pkt, 0, "Rejected", FALSE)
            /\ UNCHANGED <<cache, has_pending, net, nextEpoch>>
       ELSE IF fault = "tag" THEN
            /\ ret' = RetOf(pkt, 0, "FailedAuth", TRUE)
            /\ UNCHANGED <<cache, has_pending, net, nextEpoch>>
       ELSE IF fault = "storage" /\ (pkt.fp1 # 0 \/ pkt.fp2 # 0) THEN
            /\ ret' = RetOf(pkt, 0, "StorageError", FALSE)
            /\ UNCHANGED <<cache, has_pending, net, nextEpoch>>
       ELSE IF found.t = "Null" /\ fault = "requires_ratchet" THEN
            /\ ret' = RetOf(pkt, 0, "FailedAuth", TRUE)
            /\ UNCHANGED <<cache, has_pending, net, nextEpoch>>
       ELSE \E kid_recv \in gen_kid(session_map[p]) :
            LET b2 == [NoSlot EXCEPT !.b2 = nextEpoch, !.att = pkt.att,
                                     !.ratchet_state = ratchet_state, !.kid_send = pkt.nkid]
                idx == InsertScan(cache, kid_recv, 1)
            IN  /\ nextEpoch <= MaxEpoch
                /\ nextEpoch' = nextEpoch + 1
                /\ cache' = CacheInsert(cache, kid_recv, b2)
                /\ has_pending' = (has_pending \/ idx # 0)
                /\ Send({Pkt("X2", "alice", pkt.nkid, 0, 0, pkt.att, nextEpoch,
                             RKey(ratchet_state), kid_recv, 0, 0)})
                /\ ret' = RetOf(pkt, 0, "Unassociated", FALSE)
    /\ NoEnc
    /\ UNCHANGED <<sessions, session_map, store, nextAtt, service_pc>>
    /\ Ghost({})

\* received_x2_trans on alice's session s for packet pkt, under the session's
\* state_machine_lock. fault "tag_dh": the tag fails and the ECDH of the
\* timeout_trans that follows fails.
received_x2_trans(s, pkt, fault) ==
    LET p == "alice"
        st == sessions[s]
        disallows_downgrade == fault = "disallows_downgrade"
        \* The PSK candidates, in the order they are tried.
        m1 == pkt.psk = RKey(st.ratchet_state1)
        m2 == ~m1 /\ st.ratchet_state2.t # "Null" /\ pkt.psk = RKey(st.ratchet_state2)
        m0 == ~m1 /\ ~m2 /\ ~disallows_downgrade /\ pkt.psk = 0
        ratchet_i == IF m1 THEN 1 ELSE 2
        chain_len == IF m1 THEN st.ratchet_state1.chain_len
                     ELSE IF m0 THEN 0
                     ELSE IF st.ratchet_state2.t # "Null" THEN st.ratchet_state2.chain_len
                     ELSE st.ratchet_state1.chain_len
        new_ratchet_state == create_ratchet_state(pkt.ep, chain_len)
        ratchet_to_preserve == IF ratchet_i = 1 THEN st.ratchet_state1 ELSE st.ratchet_state2
        st1 == [st EXCEPT
                !.keys[KeyIdx(st, TRUE)].send_kid = pkt.nkid,
                !.keys[KeyIdx(st, TRUE)].ek = pkt.ep,
                !.ratchet_state2 = st.ratchet_state1,
                !.ratchet_state1 = new_ratchet_state,
                !.key_creation_counter = st.send_counter,
                !.resend_timer = ResendTime,
                !.timeout_timer = InitialOfferTimeout,
                !.beta = "A3"]
    IN
    IF fault = "len" THEN
        /\ ret' = RetOf(pkt, s, "InvalidPacket", TRUE)
        /\ UNCHANGED <<sessions, session_map, store, net, nextAtt>>
        /\ NoEnc
    ELSE IF pkt.kid # key_ref(st, TRUE).recv_kid THEN
        /\ ret' = RetOf(pkt, s, "UnknownLocalKeyId", TRUE)
        /\ UNCHANGED <<sessions, session_map, store, net, nextAtt>>
        /\ NoEnc
    ELSE IF st.beta # "A1" \/ fault \in {"tag", "tag_dh"} \/ pkt.att # st.att
            \/ ~(m1 \/ m2 \/ m0) THEN
        \* A Byzantine fault inside the transition, which a session that is not
        \* in A1 raises as well: timeout_trans is run.
        /\ TimeoutTrans(s, fault # "tag_dh", FALSE)
        /\ ret' = RetOf(pkt, s, "FailedAuth", TRUE)
        /\ UNCHANGED store
    ELSE IF fault = "storage" THEN
        /\ ret' = RetOf(pkt, s, "StorageError", FALSE)
        /\ UNCHANGED <<sessions, session_map, store, net, nextAtt>>
        /\ NoEnc
    ELSE
        /\ SaveRatchet(p, new_ratchet_state, ratchet_to_preserve)
        /\ sessions' = [sessions EXCEPT ![s] = st1]
        /\ Send({X3Packet(st1)})
        /\ ret' = RetOf(pkt, s, IF m0 THEN "DowngradedRatchetKey" ELSE "Control", FALSE)
        /\ UNCHANGED <<session_map, nextAtt>>
        /\ NoEnc

\* receive of an X2 with no other call in progress: the pre-filter of receive
\* (a session that is not in A1 drops the packet), then received_x2_trans.
ReceiveX2(pkt, fault) ==
    LET p == "alice"
        s == Lookup(p, pkt.kid)
    IN
    /\ Idle
    /\ UNCHANGED thr
    /\ pkt \in net /\ pkt.type = "X2" /\ pkt.to = p
    /\ s # 0
    /\ IF sessions[s].beta # "A1" THEN
            /\ ret' = RetOf(pkt, s, "OutOfSequence", FALSE)
            /\ UNCHANGED <<sessions, session_map, store, net, nextAtt>>
            /\ NoEnc
       ELSE received_x2_trans(s, pkt, fault)
    /\ UNCHANGED <<cache, has_pending, nextEpoch, service_pc>>
    /\ Ghost({})

\* ----------------------------------------- concurrent receive calls on an X2
\* Context::receive of an X2 by alice, call t, up to received_x2_trans: the
\* pre-filter reads the state under the read lock and lets go of it.
X2Check(t, pkt) ==
    LET p == "alice"
        s == Lookup(p, pkt.kid)
    IN
    /\ thr.at[t].pc = "idle" /\ ret = NoRet
    /\ pkt \in net /\ pkt.type = "X2" /\ pkt.to = p
    /\ s # 0
    /\ IF sessions[s].beta # "A1" THEN
            /\ ret' = RetOf(pkt, s, "OutOfSequence", FALSE)
            /\ UNCHANGED thr
       ELSE
            /\ thr' = [thr EXCEPT !.at[t] = [pc |-> "x2", pkt |-> pkt, zeta |-> NoSlot]]
            /\ UNCHANGED ret
    /\ NoEnc
    /\ UNCHANGED <<sessions, session_map, cache, has_pending, store, net, nextAtt,
                   nextEpoch, service_pc>>
    /\ Ghost({})

\* Call t takes the session's state_machine_lock and runs received_x2_trans on
\* the state it finds.
X2Trans(t, fault) ==
    LET pkt == thr.at[t].pkt
        s == Lookup("alice", pkt.kid)
    IN
    /\ thr.at[t].pc = "x2" /\ ret = NoRet
    /\ s # 0
    /\ received_x2_trans(s, pkt, fault)
    /\ thr' = [thr EXCEPT !.at[t] = NoCall]
    /\ UNCHANGED <<cache, has_pending, nextEpoch, service_pc>>
    /\ Ghost({})

\* The first session object of bob not yet constructed, or 0.
FreeSess == IF \E s \in BobSess : ~sessions[s].exists
            THEN CHOOSE s \in BobSess : ~sessions[s].exists /\ \A r \in 2..(s - 1) : sessions[r].exists
            ELSE 0

\* The ratchet rs chosen at X1 is one of the two that restore_by_identity returns.
KnownRatchet_any(rs, stored) == TRUE
KnownRatchet(rs, stored) ==
    \/ rs = stored.state1
    \/ stored.state2.t # "Null" /\ rs = stored.state2

\* received_x3_trans on the StateB2 zeta (a cache slot's content) for packet pkt.
\* fault "reject": check_accept_session returns no session data ("_silent":
\* with responder_silently_rejects); "nodowngrade": responder_disallows_downgrade;
\* "storage" / "save": restore_by_identity / save_ratchet_state fails.
received_x3_trans(zeta, pkt, fault) ==
    LET p == "bob"
        silent == fault \in {"reject_silent", "nodowngrade_silent"}
        known == KnownRatchet(zeta.ratchet_state, store[p])
        downgrade == ~known /\ fault \notin {"nodowngrade", "nodowngrade_silent"}
                     /\ Fingerprint(zeta.ratchet_state) = 0
        new_ratchet_state == create_ratchet_state(zeta.b2, zeta.ratchet_state.chain_len)
        d == Pkt("D", "alice", zeta.kid_send, INIT_COUNTER, zeta.b2, 0, 0, 0, 0, 0, 0)
        c1 == Pkt("C1", "alice", zeta.kid_send, INIT_COUNTER, zeta.b2, 0, 0, 0, 0, 0, 0)
        s == FreeSess
        st0 == [NoSession EXCEPT
                !.exists = TRUE, !.held = TRUE, !.was_bob = TRUE,
                !.send_counter = INIT_COUNTER + 1,
                !.key_creation_counter = INIT_COUNTER + 1,
                !.key_index = 0,
                !.keys[0] = [recv_kid |-> pkt.kid, send_kid |-> zeta.kid_send, ek |-> zeta.b2],
                !.ratchet_state1 = new_ratchet_state,
                !.resend_timer = ResendTime,
                !.timeout_timer = RekeyTimeout,
                !.beta = "S1"]
        st1 == [st0 EXCEPT !.queued = TRUE, !.queue_timer = next_timer(st0)]
    IN
    IF fault = "len" THEN
        /\ ret' = RetOf(pkt, 0, "InvalidPacket", TRUE)
        /\ UNCHANGED <<sessions, session_map, store, net>>
        /\ NoEnc
    ELSE IF fault = "tag" \/ pkt.ep # zeta.b2 \/ pkt.att # zeta.att THEN
        /\ ret' = RetOf(pkt, 0, "FailedAuth", TRUE)
        /\ UNCHANGED <<sessions, session_map, store, net>>
        /\ NoEnc
    ELSE IF fault \in {"reject", "reject_silent"} THEN
        /\ ret' = RetOf(pkt, 0, "FailedAuth", TRUE)
        /\ IF silent THEN UNCHANGED net /\ NoEnc
           ELSE Send({d}) /\ LogEnc({Enc(p, zeta.b2, "D", INIT_COUNTER)})
        /\ UNCHANGED <<sessions, session_map, store>>
    ELSE IF fault = "storage" THEN
        /\ ret' = RetOf(pkt, 0, "StorageError", FALSE)
        /\ UNCHANGED <<sessions, session_map, store, net>>
        /\ NoEnc
    ELSE IF ~known /\ ~downgrade THEN
        /\ ret' = RetOf(pkt, 0, "FailedAuth", TRUE)
        /\ IF silent THEN UNCHANGED net /\ NoEnc
           ELSE Send({d}) /\ LogEnc({Enc(p, zeta.b2, "D", INIT_COUNTER)})
        /\ UNCHANGED <<sessions, session_map, store>>
    ELSE IF fault = "save" THEN
        /\ ret' = RetOf(pkt, 0, "StorageError", FALSE)
        /\ UNCHANGED <<sessions, session_map, store, net>>
        /\ NoEnc
    ELSE
        /\ SaveRatchet(p, new_ratchet_state, RNull)
        /\ LogEnc({Enc(p, zeta.b2, "C1", INIT_COUNTER)})
        /\ IF session_map[p][pkt.kid] # 0 THEN
                \* session_map.entry(kid_recv) is occupied.
                /\ ret' = RetOf(pkt, session_map[p][pkt.kid], "OutOfSequence", FALSE)
                /\ UNCHANGED <<sessions, session_map, net>>
           ELSE
                /\ s # 0
                /\ sessions' = [sessions EXCEPT ![s] = st1]
                /\ session_map' = [session_map EXCEPT ![p][pkt.kid] = s]
                /\ Send({c1})
                /\ ret' = RetOf(pkt, 0, IF downgrade THEN "NewDowngradedSession"
                                          ELSE "NewSession", FALSE)

\* receive of an X3 by bob with no other call in progress: the session map
\* lookup, the cache's get and remove, then received_x3_trans.
ReceiveX3(pkt, fault) ==
    LET p == "bob"
        i == CacheFind(cache, pkt.kid)
    IN
    /\ Idle
    /\ UNCHANGED thr
    /\ pkt \in net /\ pkt.type = "X3" /\ pkt.to = p
    /\ pkt.kid # 0
    /\ IF Lookup(p, pkt.kid) # 0 THEN
            /\ ret' = RetOf(pkt, 0, "InvalidPacket", FALSE)
            /\ UNCHANGED <<sessions, session_map, cache, store, net>>
            /\ NoEnc
       ELSE IF i = 0 THEN
            /\ ret' = RetOf(pkt, 0, "UnknownLocalKeyId", FALSE)
            /\ UNCHANGED <<sessions, session_map, cache, store, net>>
            /\ NoEnc
       ELSE
            /\ cache' = CacheRemove(cache, pkt.kid)
            /\ received_x3_trans(cache[i], pkt, fault)
    /\ UNCHANGED <<has_pending, nextAtt, nextEpoch, service_pc>>
    /\ Ghost({})

\* receive of a packet other than X1 and X3 whose key id resolves to no session:
\* a cache entry under that key id admits only an X3 (InvalidPacket), and without
\* one the key id is unknown.
ReceiveUnassociated(pkt) ==
    LET p == pkt.to IN
    /\ Idle
    /\ UNCHANGED thr
    /\ pkt \in net /\ pkt.type \notin {"X1", "X3"} /\ pkt.kid # 0
    /\ Lookup(p, pkt.kid) = 0
    /\ ret' = IF p = "bob" /\ CacheFind(cache, pkt.kid) # 0
              THEN RetOf(pkt, 0, "InvalidPacket", TRUE)
              ELSE RetOf(pkt, 0, "UnknownLocalKeyId", FALSE)
    /\ NoEnc
    /\ UNCHANGED <<sessions, session_map, cache, has_pending, store, net, nextAtt,
                   nextEpoch, service_pc>>
    /\ Ghost({})

\* ----------------------------------------- concurrent receive calls on an X3
\* Context::receive of an X3 by bob, call t, up to the cache's get: the session
\* map lookup misses and get clones the StateB2 stored under the packet's key id.
X3Get(t, pkt) ==
    LET p == "bob"
        i == CacheFind(cache, pkt.kid)
    IN
    /\ thr.at[t].pc = "idle" /\ ret = NoRet
    /\ pkt \in net /\ pkt.type = "X3" /\ pkt.to = p
    /\ pkt.kid # 0
    /\ IF Lookup(p, pkt.kid) # 0 THEN
            /\ ret' = RetOf(pkt, 0, "InvalidPacket", FALSE)
            /\ UNCHANGED thr
       ELSE IF i = 0 THEN
            /\ ret' = RetOf(pkt, 0, "UnknownLocalKeyId", FALSE)
            /\ UNCHANGED thr
       ELSE
            /\ thr' = [thr EXCEPT !.at[t] = [pc |-> "got", pkt |-> pkt, zeta |-> cache[i]]]
            /\ UNCHANGED ret
    /\ NoEnc
    /\ UNCHANGED <<sessions, session_map, cache, has_pending, store, net, nextAtt,
                   nextEpoch, service_pc>>
    /\ Ghost({})

\* Call t reaches `unassociated_handshake_states.remove(kid_recv)`: true sends it
\* on to received_x3_trans with the StateB2 it got, false returns Unassociated.
X3Remove(t) ==
    LET call == thr.at[t]
        found == CacheFind(cache, call.pkt.kid) # 0
    IN
    /\ call.pc = "got"
    /\ IF found THEN
            /\ cache' = CacheRemove(cache, call.pkt.kid)
            /\ thr' = [at |-> [thr.at EXCEPT ![t].pc = "removed"],
                       invoked |-> thr.invoked \cup {call.zeta.b2},
                       twice |-> (thr.twice \/ call.zeta.b2 \in thr.invoked),
                       lk |-> thr.lk]
            /\ UNCHANGED ret
       ELSE
            /\ ret = NoRet
            /\ ret' = RetOf(call.pkt, 0, "Unassociated", FALSE)
            /\ thr' = [thr EXCEPT !.at[t] = NoCall]
            /\ UNCHANGED cache
    /\ NoEnc
    /\ UNCHANGED <<sessions, session_map, has_pending, store, net, nextAtt,
                   nextEpoch, service_pc>>
    /\ Ghost({})

\* Call t runs received_x3_trans on the StateB2 it got and returns.
X3Trans(t, fault) ==
    LET call == thr.at[t]
    IN
    /\ call.pc = "removed" /\ ret = NoRet
    /\ received_x3_trans(call.zeta, call.pkt, fault)
    /\ thr' = [thr EXCEPT !.at[t] = NoCall]
    /\ UNCHANGED <<cache, has_pending, nextAtt, nextEpoch, service_pc>>
    /\ Ghost({})

\* The rekey deadline set on entering S2: rekey_after_time less the jitter j.
RekeyDeadline_late(j) == RekeyAfterTime + 1 + j
RekeyDeadline(j) == IF RekeyAfterTime > j THEN RekeyAfterTime - j ELSE 0
Jitter == 0..(RekeyTimeMaxJitter - 1)

\* receive of a KEY_CONFIRM (C1): the pre-filter of receive, then received_c1_trans.
\* received_c1_trans: just_establised, the C1 confirms the next slot of a session
\* in A3 (just_established_any: of a session in any state).
just_established_any(st, is_other) == is_other
just_established(st, is_other) == is_other /\ st.beta = "A3"
ReceiveC1(pkt, fault, j) ==
    LET p == pkt.to
        s == Lookup(p, pkt.kid)
        st == sessions[s]
        is_other == pkt.kid = key_ref(st, TRUE).recv_kid
        ek == key_ref(st, is_other).ek
        stw == [st EXCEPT !.window = WindowUpdate(st.window, pkt.c)]
        trans == is_other /\ st.beta \in {"A3", "R2"}
        st1 == IF trans
               THEN [stw EXCEPT !.ratchet_state2 = RNull,
                                !.key_index = 1 - st.key_index,
                                !.timeout_timer = RekeyDeadline(j),
                                !.resend_timer = TimerMax,
                                !.beta = "S2"]
               ELSE stw
        c == st1.send_counter
        st2 == [st1 EXCEPT !.send_counter = NextSendCounter(c)]
    IN
    /\ Idle
    /\ UNCHANGED thr
    /\ pkt \in net /\ pkt.type = "C1"
    /\ s # 0
    /\ UNCHANGED <<session_map, cache, has_pending, nextAtt, nextEpoch, service_pc>>
    /\ IF ~WindowCheck(st.window, pkt.c) THEN
            /\ ret' = RetOf(pkt, s, "ExpiredCounter", FALSE)
            /\ UNCHANGED <<sessions, store, net>> /\ NoEnc /\ Ghost({})
       ELSE IF fault = "len" THEN
            /\ ret' = RetOf(pkt, s, "InvalidPacket", TRUE)
            /\ UNCHANGED <<sessions, store, net>> /\ NoEnc /\ Ghost({})
       ELSE IF ~is_other /\ pkt.kid # key_ref(st, FALSE).recv_kid THEN
            /\ ret' = RetOf(pkt, s, "OutOfSequence", FALSE)
            /\ UNCHANGED <<sessions, store, net>> /\ NoEnc /\ Ghost({})
       ELSE IF ek = 0 THEN
            /\ ret' = RetOf(pkt, s, "OutOfSequence", TRUE)
            /\ UNCHANGED <<sessions, store, net>> /\ NoEnc /\ Ghost({})
       ELSE IF fault = "tag" \/ ~decrypt_in_place(ek, pkt) THEN
            /\ ret' = RetOf(pkt, s, "FailedAuth", TRUE)
            /\ sessions' = [sessions EXCEPT ![s] = tag_failed(st, pkt.c)]
            /\ UNCHANGED <<store, net>> /\ NoEnc /\ Ghost({})
       ELSE IF trans /\ st.ratchet_state2.t # "Null" /\ fault = "save" THEN
            /\ ret' = RetOf(pkt, s, "StorageError", FALSE)
            /\ sessions' = [sessions EXCEPT ![s] = stw]
            /\ UNCHANGED <<store, net>> /\ NoEnc /\ Ghost({<<s, pkt.c>>})
       ELSE
            /\ c < CounterCap
            /\ IF trans /\ st.ratchet_state2.t # "Null"
               THEN SaveRatchet(p, st.ratchet_state1, RNull)
               ELSE UNCHANGED store
            /\ sessions' = [sessions EXCEPT ![s] = st2]
            /\ IF key_ref(st1, FALSE).ek = 0 THEN
                    /\ ret' = RetOf(pkt, s, "OutOfSequence", TRUE)
                    /\ UNCHANGED net /\ NoEnc
               ELSE
                    /\ LogEnc({Enc(p, key_ref(st1, FALSE).ek, "C2", c)})
                    /\ Send({Control("C2", p, st1, c, 0, 0, 0, 0)})
                    /\ ret' = RetOf(pkt, s, IF just_established(st, is_other) THEN "Established"
                                              ELSE "Control", FALSE)
            /\ Ghost({<<s, pkt.c>>})

\* receive of an ACK (C2): the pre-filter of receive, then received_c2_trans.
ReceiveC2(pkt, fault, j) ==
    LET p == pkt.to
        s == Lookup(p, pkt.kid)
        st == sessions[s]
        st1 == [st EXCEPT !.window = WindowUpdate(st.window, pkt.c),
                          !.timeout_timer = RekeyDeadline(j),
                          !.resend_timer = TimerMax,
                          !.beta = "S2"]
    IN
    /\ Idle
    /\ UNCHANGED thr
    /\ pkt \in net /\ pkt.type = "C2"
    /\ s # 0
    /\ UNCHANGED <<session_map, cache, has_pending, store, net, nextAtt, nextEpoch, service_pc>>
    /\ IF ~WindowCheck(st.window, pkt.c) THEN
            /\ ret' = RetOf(pkt, s, "ExpiredCounter", FALSE)
            /\ UNCHANGED sessions /\ Ghost({})
       ELSE IF fault = "len" THEN
            /\ ret' = RetOf(pkt, s, "InvalidPacket", TRUE)
            /\ UNCHANGED sessions /\ Ghost({})
       ELSE IF pkt.kid # key_ref(st, FALSE).recv_kid THEN
            /\ ret' = RetOf(pkt, s, "UnknownLocalKeyId", FALSE)
            /\ UNCHANGED sessions /\ Ghost({})
       ELSE IF st.beta # "S1" THEN
            /\ ret' = RetOf(pkt, s, "OutOfSequence", FALSE)
            /\ UNCHANGED sessions /\ Ghost({})
       ELSE IF fault = "tag" \/ ~decrypt_in_place(key_ref(st, FALSE).ek, pkt) THEN
            /\ ret' = RetOf(pkt, s, "FailedAuth", TRUE)
            /\ sessions' = [sessions EXCEPT ![s] = tag_failed(st, pkt.c)]
            /\ Ghost({})
       ELSE
            /\ sessions' = [sessions EXCEPT ![s] = st1]
            /\ ret' = RetOf(pkt, s, "Control", FALSE)
            /\ Ghost({<<s, pkt.c>>})
    /\ NoEnc

\* receive of a SESSION_REJECTED (D): the pre-filter of receive, then received_d_trans.
\* received_d_trans: the D is in sequence, addressed to the next slot's kid_recv
\* of a session in A3 (d_in_sequence_any: of a session in any state).
d_in_sequence_any(st, kid) == kid = key_ref(st, TRUE).recv_kid
d_in_sequence(st, kid) == kid = key_ref(st, TRUE).recv_kid /\ st.beta = "A3"
ReceiveD(pkt, fault) ==
    LET p == pkt.to
        s == Lookup(p, pkt.kid)
        st == sessions[s]
        stw == [st EXCEPT !.window = WindowUpdate(st.window, pkt.c)]
    IN
    /\ Idle
    /\ UNCHANGED thr
    /\ pkt \in net /\ pkt.type = "D"
    /\ s # 0
    /\ IF ~WindowCheck(st.window, pkt.c) THEN
            /\ ret' = RetOf(pkt, s, "ExpiredCounter", FALSE)
            /\ UNCHANGED <<sessions, session_map>> /\ Ghost({})
       ELSE IF fault = "len" THEN
            /\ ret' = RetOf(pkt, s, "InvalidPacket", TRUE)
            /\ UNCHANGED <<sessions, session_map>> /\ Ghost({})
       ELSE IF ~d_in_sequence(st, pkt.kid) THEN
            /\ ret' = RetOf(pkt, s, "OutOfSequence", TRUE)
            /\ UNCHANGED <<sessions, session_map>> /\ Ghost({})
       ELSE IF fault = "tag" \/ ~decrypt_in_place(key_ref(st, TRUE).ek, pkt) THEN
            /\ ret' = RetOf(pkt, s, "FailedAuth", TRUE)
            /\ sessions' = [sessions EXCEPT ![s] = tag_failed(st, pkt.c)]
            /\ UNCHANGED session_map /\ Ghost({})
       ELSE
            /\ sessions' = [sessions EXCEPT ![s] = ExpireSess(stw)]
            /\ session_map' = [session_map EXCEPT ![p] = ExpireMap(session_map[p], st)]
            /\ ret' = RetOf(pkt, s, "Rejected", FALSE)
            /\ Ghost({<<s, pkt.c>>})
    /\ NoEnc
    /\ UNCHANGED <<cache, has_pending, store, net, nextAtt, nextEpoch, service_pc>>

\* Session::expire called by the application.
Expire(s) ==
    LET p == Owner(s) IN
    /\ Idle
    /\ UNCHANGED thr
    /\ sessions[s].exists /\ sessions[s].held
    /\ sessions[s].beta # "Null"
    /\ sessions' = [sessions EXCEPT ![s] = ExpireSess(sessions[s])]
    /\ session_map' = [session_map EXCEPT ![p] = ExpireMap(session_map[p], sessions[s])]
    /\ ret' = Ret("expire", p, s, "Ok", FALSE)
    /\ NoEnc
    /\ UNCHANGED <<cache, has_pending, store, net, nextAtt, nextEpoch, service_pc>>
    /\ Ghost({})

\* The application releases its last strong handle of session s: Drop for
\* Session runs expire, and the weak references the context keeps for the
\* session no longer upgrade.
Drop(s) ==
    LET p == Owner(s) IN
    /\ Idle
    /\ UNCHANGED thr
    /\ sessions[s].exists /\ sessions[s].held
    /\ sessions' = [sessions EXCEPT ![s] = [ExpireSess(sessions[s]) EXCEPT !.held = FALSE]]
    /\ session_map' = [session_map EXCEPT ![p] = ExpireMap(session_map[p], sessions[s])]
    /\ ret' = Ret("drop", p, s, "Ok", FALSE)
    /\ NoEnc
    /\ UNCHANGED <<cache, has_pending, store, net, nextAtt, nextEpoch, service_pc>>
    /\ Ghost({})

\* received_k1_trans: who answers a K1. In S2 everyone; in R1, where this peer
\* has sent a K1 of its own, only the responder of the initial key exchange
\* (should_rekey_as_bob_initiator: in R1 only its initiator).
should_rekey_as_bob_initiator(st) ==
    IF st.beta = "S2" THEN TRUE ELSE IF st.beta = "R1" THEN ~st.was_bob ELSE FALSE
should_rekey_as_bob_idle(st) == st.beta = "S2"
should_rekey_as_bob(st) ==
    IF st.beta = "S2" THEN TRUE ELSE IF st.beta = "R1" THEN st.was_bob ELSE FALSE

\* ------------------------------------------------------------- rekey
\* receive of a REKEY_INIT (K1): the pre-filter of receive, then received_k1_trans.
\* fault "inner": the Noise payload inside the authenticated packet is invalid.
ReceiveK1(pkt, fault) ==
    LET p == pkt.to
        s == Lookup(p, pkt.kid)
        st == sessions[s]
        map == session_map[p]
        stw == [st EXCEPT !.window = WindowUpdate(st.window, pkt.c)]
        new_ratchet_state == create_ratchet_state(nextEpoch, st.ratchet_state1.chain_len)
        c == st.send_counter
    IN
    /\ Idle
    /\ UNCHANGED thr
    /\ pkt \in net /\ pkt.type = "K1"
    /\ s # 0
    /\ UNCHANGED <<cache, has_pending, nextAtt, service_pc>>
    /\ IF ~WindowCheck(st.window, pkt.c) THEN
            /\ ret' = RetOf(pkt, s, "ExpiredCounter", FALSE)
            /\ UNCHANGED <<sessions, session_map, store, net, nextEpoch>> /\ NoEnc /\ Ghost({})
       ELSE IF fault = "len" THEN
            /\ ret' = RetOf(pkt, s, "InvalidPacket", TRUE)
            /\ UNCHANGED <<sessions, session_map, store, net, nextEpoch>> /\ NoEnc /\ Ghost({})
       ELSE IF pkt.kid # key_ref(st, FALSE).recv_kid THEN
            /\ ret' = RetOf(pkt, s, "UnknownLocalKeyId", FALSE)
            /\ UNCHANGED <<sessions, session_map, store, net, nextEpoch>> /\ NoEnc /\ Ghost({})
       ELSE IF ~should_rekey_as_bob(st) THEN
            /\ ret' = RetOf(pkt, s, "OutOfSequence", FALSE)
            /\ UNCHANGED <<sessions, session_map, store, net, nextEpoch>> /\ NoEnc /\ Ghost({})
       ELSE IF fault = "tag" \/ ~decrypt_in_place(key_ref(st, FALSE).ek, pkt) THEN
            /\ ret' = RetOf(pkt, s, "FailedAuth", TRUE)
            /\ sessions' = [sessions EXCEPT ![s] = tag_failed(st, pkt.c)]
            /\ UNCHANGED <<session_map, store, net, nextEpoch>> /\ NoEnc /\ Ghost({})
       ELSE IF fault = "inner" \/ pkt.psk # RKey(st.ratchet_state1) \/ pkt.nkid = 0 THEN
            \* A Byzantine fault inside the transition: the session expires.
            /\ ret' = RetOf(pkt, s, "FailedAuth", TRUE)
            /\ sessions' = [sessions EXCEPT ![s] = ExpireSess(stw)]
            /\ session_map' = [session_map EXCEPT ![p] = ExpireMap(map, st)]
            /\ UNCHANGED <<store, net, nextEpoch>> /\ NoEnc /\ Ghost({<<s, pkt.c>>})
       ELSE \E new_kid_recv \in gen_kid(RemapRemoved(map, st)) :
            LET map1 == remap(map, st, s, new_kid_recv)
                st1 == [stw EXCEPT
                        !.keys[KeyIdx(st, TRUE)] =
                            [recv_kid |-> new_kid_recv, send_kid |-> pkt.nkid, ek |-> nextEpoch],
                        !.ratchet_state2 = st.ratchet_state1,
                        !.ratchet_state1 = new_ratchet_state,
                        !.key_creation_counter = c,
                        !.timeout_timer = RekeyTimeout,
                        !.resend_timer = ResendTime,
                        !.beta = "R2",
                        !.att = pkt.att,
                        !.send_counter = NextSendCounter(c)]
            IN  /\ session_map' = [session_map EXCEPT ![p] = map1]
                /\ IF fault = "save" THEN
                        /\ ret' = RetOf(pkt, s, "StorageError", FALSE)
                        /\ sessions' = [sessions EXCEPT ![s] = stw]
                        /\ UNCHANGED <<store, net, nextEpoch>> /\ NoEnc
                   ELSE
                        /\ nextEpoch <= MaxEpoch /\ c < CounterCap
                        /\ nextEpoch' = nextEpoch + 1
                        /\ SaveRatchet(p, new_ratchet_state, st.ratchet_state1)
                        /\ sessions' = [sessions EXCEPT ![s] = st1]
                        /\ LogEnc({Enc(p, key_ref(st, FALSE).ek, "K2", c)})
                        /\ Send({Control("K2", p, st, c, pkt.att, nextEpoch, 0, new_kid_recv)})
                        /\ ret' = RetOf(pkt, s, "Control", FALSE)
                /\ Ghost({<<s, pkt.c>>})

\* receive of a REKEY_COMPLETE (K2): the pre-filter of receive, then received_k2_trans.
ReceiveK2(pkt, fault) ==
    LET p == pkt.to
        s == Lookup(p, pkt.kid)
        st == sessions[s]
        stw == [st EXCEPT !.window = WindowUpdate(st.window, pkt.c)]
        new_ratchet_state == create_ratchet_state(pkt.ep, st.ratchet_state1.chain_len)
        c == st.send_counter
        st1 == [stw EXCEPT
                !.keys[KeyIdx(st, TRUE)].send_kid = pkt.nkid,
                !.keys[KeyIdx(st, TRUE)].ek = pkt.ep,
                !.ratchet_state1 = new_ratchet_state,
                !.key_index = 1 - st.key_index,
                !.key_creation_counter = c,
                !.timeout_timer = RekeyTimeout,
                !.resend_timer = ResendTime,
                !.beta = "S1",
                !.send_counter = NextSendCounter(c)]
    IN
    /\ Idle
    /\ UNCHANGED thr
    /\ pkt \in net /\ pkt.type = "K2"
    /\ s # 0
    /\ UNCHANGED <<cache, has_pending, nextAtt, nextEpoch, service_pc>>
    /\ IF ~WindowCheck(st.window, pkt.c) THEN
            /\ ret' = RetOf(pkt, s, "ExpiredCounter", FALSE)
            /\ UNCHANGED <<sessions, session_map, store, net>> /\ NoEnc /\ Ghost({})
       ELSE IF fault = "len" THEN
            /\ ret' = RetOf(pkt, s, "InvalidPacket", TRUE)
            /\ UNCHANGED <<sessions, session_map, store, net>> /\ NoEnc /\ Ghost({})
       ELSE IF pkt.kid # key_ref(st, FALSE).recv_kid THEN
            /\ ret' = RetOf(pkt, s, "UnknownLocalKeyId", FALSE)
            /\ UNCHANGED <<sessions, session_map, store, net>> /\ NoEnc /\ Ghost({})
       ELSE IF st.beta # "R1" THEN
            /\ ret' = RetOf(pkt, s, "OutOfSequence", FALSE)
            /\ UNCHANGED <<sessions, session_map, store, net>> /\ NoEnc /\ Ghost({})
       ELSE IF fault = "tag" \/ ~decrypt_in_place(key_ref(st, FALSE).ek, pkt) THEN
            /\ ret' = RetOf(pkt, s, "FailedAuth", TRUE)
            /\ sessions' = [sessions EXCEPT ![s] = tag_failed(st, pkt.c)]
            /\ UNCHANGED <<session_map, store, net>> /\ NoEnc /\ Ghost({})
       ELSE IF fault = "inner" \/ pkt.att # st.att \/ pkt.nkid = 0 THEN
            \* A Byzantine fault inside the transition: the session expires.
            /\ ret' = RetOf(pkt, s, IF fault # "inner" /\ pkt.att = st.att
                                      THEN "InvalidPacket" ELSE "FailedAuth", TRUE)
            /\ sessions' = [sessions EXCEPT ![s] = ExpireSess(stw)]
            /\ session_map' = [session_map EXCEPT ![p] = ExpireMap(session_map[p], st)]
            /\ UNCHANGED <<store, net>> /\ NoEnc /\ Ghost({<<s, pkt.c>>})
       ELSE IF fault = "save" THEN
            /\ ret' = RetOf(pkt, s, "StorageError", FALSE)
            /\ sessions' = [sessions EXCEPT ![s] = stw]
            /\ UNCHANGED <<session_map, store, net>> /\ NoEnc /\ Ghost({<<s, pkt.c>>})
       ELSE
            /\ c < CounterCap
            /\ SaveRatchet(p, new_ratchet_state, RNull)
            /\ sessions' = [sessions EXCEPT ![s] = st1]
            /\ LogEnc({Enc(p, key_ref(st1, FALSE).ek, "C1", c)})
            /\ Send({Control("C1", p, st1, c, 0, 0, 0, 0)})
            /\ ret' = RetOf(pkt, s, "Control", FALSE)
            /\ UNCHANGED session_map /\ Ghost({<<s, pkt.c>>})

\* The key-use limits of send_payload for a packet that took counter c: past
\* EXPIRE_AFTER_USES the session expires, past rekey_after_key_uses the timeout
\* timer is set to i64::MIN (key_use_limits_none: neither limit applied).
key_use_limits_none(st, c) == st
key_use_limits(st, c) ==
    IF c >= st.key_creation_counter + REKEY_AFTER_KEY_USES
    THEN IF c >= st.key_creation_counter + EXPIRE_AFTER_USES
         THEN ExpireSess(st)
         ELSE [st EXCEPT !.timeout_timer = TimerMin]
    ELSE st
\* What send returned for session s, kept with the counter the call found.
RetSend(s, res) ==
    [op |-> "send", p |-> Owner(s), res |-> res, unnatural |-> FALSE, s |-> s,
     c |-> sessions[s].send_counter, pkt |-> NoPkt]

\* ------------------------------------------------------------ payloads
\* Context::send / send_payload on session s.
SendPayload(s) ==
    LET p == Owner(s)
        st == sessions[s]
        c == st.send_counter
        stc == [st EXCEPT !.send_counter = NextSendCounter(c)]
        st1 == key_use_limits(stc, c)
    IN
    /\ Idle
    /\ UNCHANGED thr
    /\ st.exists /\ st.held
    /\ IF st.beta = "Null" THEN
            /\ ret' = RetSend(s, "SessionExpired")
            /\ UNCHANGED <<sessions, session_map, net>> /\ NoEnc
       ELSE IF st.beta \notin {"S1", "S2", "R1", "R2"} THEN
            /\ ret' = RetSend(s, "SessionNotEstablished")
            /\ UNCHANGED <<sessions, session_map, net>> /\ NoEnc
       ELSE
            /\ c < CounterCap
            /\ sessions' = [sessions EXCEPT ![s] = st1]
            /\ session_map' = IF st1.beta = "Null"
                              THEN [session_map EXCEPT ![p] = ExpireMap(session_map[p], st)]
                              ELSE session_map
            /\ LogEnc({Enc(p, key_ref(st, FALSE).ek, "DATA", c)})
            /\ Send({Control("DATA", p, st, c, 0, 0, 0, 0)})
            /\ ret' = RetSend(s, "Ok")
    /\ UNCHANGED <<cache, has_pending, store, nextAtt, nextEpoch, service_pc>>
    /\ Ghost({})

\* receive of a DATA packet: the pre-filter of receive, then received_payload_in_place.
ReceivePayload(pkt, fault) ==
    LET p == pkt.to
        s == Lookup(p, pkt.kid)
        st == sessions[s]
        is_other == pkt.kid = key_ref(st, TRUE).recv_kid
        ek == key_ref(st, is_other).ek
    IN
    /\ Idle
    /\ UNCHANGED thr
    /\ pkt \in net /\ pkt.type = "DATA"
    /\ s # 0
    /\ UNCHANGED <<session_map, cache, has_pending, store, net, nextAtt, nextEpoch, service_pc>>
    /\ IF ~WindowCheck(st.window, pkt.c) THEN
            /\ ret' = RetOf(pkt, s, "ExpiredCounter", FALSE)
            /\ UNCHANGED sessions /\ Ghost({})
       ELSE IF fault = "len" THEN
            /\ ret' = RetOf(pkt, s, "FailedAuth", TRUE)
            /\ UNCHANGED sessions /\ Ghost({})
       ELSE IF ~is_other /\ pkt.kid # key_ref(st, FALSE).recv_kid THEN
            /\ ret' = RetOf(pkt, s, "OutOfSequence", FALSE)
            /\ UNCHANGED sessions /\ Ghost({})
       ELSE IF ek = 0 THEN
            /\ ret' = RetOf(pkt, s, "OutOfSequence", TRUE)
            /\ UNCHANGED sessions /\ Ghost({})
       ELSE IF fault = "tag" \/ ~decrypt_in_place(ek, pkt) THEN
            /\ ret' = RetOf(pkt, s, "FailedAuth", TRUE)
            /\ sessions' = [sessions EXCEPT ![s] = tag_failed(st, pkt.c)]
            /\ Ghost({})
       ELSE
            /\ sessions' = [sessions EXCEPT ![s].window = WindowUpdate(st.window, pkt.c)]
            /\ ret' = RetOf(pkt, s, "Data", FALSE)
            /\ Ghost({<<s, pkt.c>>})
    /\ NoEnc

\* ------------------------------------- concurrent receive calls on a DATA
\* Context::receive of a fragment of the DATA packet pkt, call t, up to the
\* defragmentation: the pre-filter tests the counter against the window without
\* recording it. A fragment that does not complete the packet (last = FALSE) is
\* kept by assemble and the call returns Unassociated.
PayloadCheck(t, pkt, last) ==
    LET p == pkt.to
        s == Lookup(p, pkt.kid)
    IN
    /\ thr.at[t].pc = "idle" /\ ret = NoRet
    /\ pkt \in net /\ pkt.type = "DATA"
    /\ s # 0
    /\ IF ~WindowCheck(sessions[s].window, pkt.c) THEN
            /\ ret' = RetOf(pkt, s, "ExpiredCounter", FALSE)
            /\ UNCHANGED thr
       ELSE IF ~last THEN
            /\ ret' = RetOf(pkt, s, "Unassociated", FALSE)
            /\ UNCHANGED thr
       ELSE
            /\ thr' = [thr EXCEPT !.at[t] = [pc |-> "checked", pkt |-> pkt, zeta |-> NoSlot]]
            /\ UNCHANGED ret
    /\ NoEnc
    /\ UNCHANGED <<sessions, session_map, cache, has_pending, store, net, nextAtt,
                   nextEpoch, service_pc>>
    /\ Ghost({})

\* Call t runs received_payload_in_place on the assembled packet and returns:
\* update_counter_window refuses a counter that was recorded since the pre-filter.
PayloadTrans(t, fault) ==
    LET pkt == thr.at[t].pkt
        p == pkt.to
        s == Lookup(p, pkt.kid)
        st == sessions[s]
        is_other == pkt.kid = key_ref(st, TRUE).recv_kid
        ek == key_ref(st, is_other).ek
    IN
    /\ thr.at[t].pc = "checked" /\ ret = NoRet
    /\ s # 0
    /\ thr' = [thr EXCEPT !.at[t] = NoCall]
    /\ UNCHANGED <<session_map, cache, has_pending, store, net, nextAtt, nextEpoch, service_pc>>
    /\ IF fault = "len" THEN
            /\ ret' = RetOf(pkt, s, "FailedAuth", TRUE)
            /\ UNCHANGED sessions /\ Ghost({})
       ELSE IF ~is_other /\ pkt.kid # key_ref(st, FALSE).recv_kid THEN
            /\ ret' = RetOf(pkt, s, "OutOfSequence", FALSE)
            /\ UNCHANGED sessions /\ Ghost({})
       ELSE IF ek = 0 THEN
            /\ ret' = RetOf(pkt, s, "OutOfSequence", TRUE)
            /\ UNCHANGED sessions /\ Ghost({})
       ELSE IF fault = "tag" \/ ~decrypt_in_place(ek, pkt) THEN
            /\ ret' = RetOf(pkt, s, "FailedAuth", TRUE)
            /\ sessions' = [sessions EXCEPT ![s] = tag_failed(st, pkt.c)]
            /\ Ghost({})
       ELSE IF ~WindowCheck(st.window, pkt.c) THEN
            /\ ret' = RetOf(pkt, s, "ExpiredCounter", TRUE)
            /\ UNCHANGED sessions /\ Ghost({})
       ELSE
            /\ sessions' = [sessions EXCEPT ![s].window = WindowUpdate(st.window, pkt.c)]
            /\ ret' = RetOf(pkt, s, "Data", FALSE)
            /\ Ghost({<<s, pkt.c>>})
    /\ NoEnc

\* ---------------------------------------------------- Context::service
\* The queue entries of context p, and the ones peek can return (least timer).
Queued(p) == {s \in Sess : Owner(s) = p /\ sessions[s].queued}
QueueTop(p) ==
    {s \in Queued(p) : \A r \in Queued(p) : sessions[s].queue_timer <= sessions[r].queue_timer}
\* No other call runs while context p is inside service.
InService(p) == ret = NoRet /\ service_pc[Peer(p)] = "idle"
\* Context::service on a queue entry whose weak reference no longer upgrades:
\* the entry is removed and no timer of the session runs.
Unqueue_kept(st) == [st EXCEPT !.queue_timer = ResendTime]
Unqueue(st) == [st EXCEPT !.queued = FALSE]
\* One iteration of the loop of Context::service on the queue's top entry s:
\* process_timers (the timer rules of service in zeta.rs), then Requeue.
ServiceSession(p, s, dh_ok) ==
    LET st == sessions[s]
        c == st.send_counter
        type == IF st.beta = "S1" THEN "C1" ELSE IF st.beta = "R1" THEN "K1" ELSE "K2"
        str == [st EXCEPT !.resend_timer = ResendTime]
        pkt == IF type = "C1" THEN Control("C1", p, st, c, 0, 0, 0, 0)
               ELSE IF type = "K1"
               THEN Control("K1", p, st, c, st.att, 0, RKey(st.ratchet_state1),
                            key_ref(st, TRUE).recv_kid)
               ELSE Control("K2", p, st, c, st.att, key_ref(st, TRUE).ek, 0,
                            key_ref(st, TRUE).recv_kid)
    IN
    /\ InService(p)
    /\ UNCHANGED thr
    /\ s \in QueueTop(p)
    /\ st.queue_timer < 0
    /\ IF ~st.held THEN
            /\ sessions' = [sessions EXCEPT ![s] = Unqueue(st)]
            /\ UNCHANGED <<session_map, net, nextAtt>> /\ NoEnc
       ELSE IF st.timeout_timer <= 0 THEN
            TimeoutTrans(s, dh_ok, TRUE)
       ELSE IF st.resend_timer <= 0 THEN
            IF st.beta \in {"Null", "S2"} THEN
                /\ sessions' = [sessions EXCEPT ![s] = Requeue(str)]
                /\ UNCHANGED <<session_map, net, nextAtt>> /\ NoEnc
            ELSE IF st.beta = "A1" THEN
                /\ sessions' = [sessions EXCEPT ![s] = Requeue(str)]
                /\ Send({X1Packet(st)})
                /\ UNCHANGED <<session_map, nextAtt>> /\ NoEnc
            ELSE IF st.beta = "A3" THEN
                /\ sessions' = [sessions EXCEPT ![s] = Requeue(str)]
                /\ Send({X3Packet(st)})
                /\ UNCHANGED <<session_map, nextAtt>> /\ NoEnc
            ELSE
                /\ c < CounterCap
                /\ sessions' = [sessions EXCEPT ![s] = Requeue([str EXCEPT !.send_counter = NextSendCounter(c)])]
                /\ LogEnc({Enc(p, key_ref(st, FALSE).ek, type, c)})
                /\ Send({pkt})
                /\ UNCHANGED <<session_map, nextAtt>>
       ELSE
            /\ sessions' = [sessions EXCEPT ![s] = Requeue(st)]
            /\ UNCHANGED <<session_map, net, nextAtt>> /\ NoEnc
    /\ service_pc' = [service_pc EXCEPT ![p] = "loop"]
    /\ UNCHANGED <<cache, has_pending, store, nextEpoch, ret>>
    /\ Ghost({})

\* The loop of Context::service breaks (no entry is overdue); the unassociated
\* handshake cache is serviced and the call returns.
ServiceEnd(p) ==
    /\ InService(p)
    /\ UNCHANGED thr
    /\ \A s \in Queued(p) : sessions[s].queue_timer >= 0
    /\ IF p = "bob" /\ has_pending
       THEN /\ cache' = CacheService(cache)
            /\ has_pending' = (\E i \in Slots : cache'[i].local_id # 0)
       ELSE UNCHANGED <<cache, has_pending>>
    /\ service_pc' = [service_pc EXCEPT ![p] = "idle"]
    /\ ret' = Ret("service", p, 0, "Ok", FALSE)
    /\ NoEnc
    /\ UNCHANGED <<sessions, session_map, store, net, nextAtt, nextEpoch>>
    /\ Ghost({})

\* ------------------------------------------------- established sessions
\* The state right after one loss-free handshake: open, X1, X2, X3, C1, C2, each
\* received once with no time elapsed; alice's session 1 and bob's session 2 are
\* in S2 under the keys of epoch 1.
EstRatchet == RNonEmpty(1, 1)
EstAlice ==
    [NoSession EXCEPT
        !.exists = TRUE, !.held = TRUE, !.was_bob = FALSE, !.beta = "S2", !.att = 1,
        !.key_index = 0,
        !.keys = [i \in 0..1 |-> IF i = 0 THEN [recv_kid |-> 1, send_kid |-> 1, ek |-> 1]
                                 ELSE NoKeys],
        !.ratchet_state1 = EstRatchet,
        !.send_counter = INIT_COUNTER + 1, !.key_creation_counter = INIT_COUNTER,
        !.window = WindowUpdate(WindowNew, INIT_COUNTER),
        !.resend_timer = TimerMax, !.timeout_timer = RekeyDeadline(0),
        !.queued = TRUE, !.queue_timer = ResendTime]
EstBob ==
    [EstAlice EXCEPT !.was_bob = TRUE, !.att = 0, !.key_creation_counter = INIT_COUNTER + 1]
EstNet ==
    {Pkt("X1", "bob", 0, 0, 0, 1, 0, 0, 1, 0, 0),
     Pkt("X2", "alice", 1, 0, 0, 1, 1, 0, 1, 0, 0),
     Pkt("X3", "bob", 1, 0, 0, 1, 1, 0, 0, 0, 0),
     Pkt("C1", "alice", 1, INIT_COUNTER, 1, 0, 0, 0, 0, 0, 0),
     Pkt("C2", "bob", 1, INIT_COUNTER, 1, 0, 0, 0, 0, 0, 0)}
InitEstablished ==
    /\ sessions = [s \in Sess |-> IF s = 1 THEN EstAlice ELSE IF s = 2 THEN EstBob ELSE NoSession]
    /\ session_map = [p \in Ctx |-> [k \in Kids |-> IF k = 1 THEN (IF p = "alice" THEN 1 ELSE 2) ELSE 0]]
    /\ cache = [i \in Slots |-> NoSlot]
    /\ has_pending = TRUE
    /\ store = [p \in Ctx |-> [state1 |-> EstRatchet, state2 |-> RNull]]
    /\ net = EstNet
    /\ nextAtt = 2
    /\ nextEpoch = 2
    /\ enc_log = {Enc("bob", 1, "C1", INIT_COUNTER), Enc("alice", 1, "C2", INIT_COUNTER)}
    /\ nonce_reused = FALSE
    /\ ret = NoRet
    /\ service_pc = [p \in Ctx |-> "idle"]
    /\ thr = ThrInit
    /\ hist = [registered |-> [s \in Sess |-> IF s \in {1, 2} THEN {1} ELSE {}],
               accepted |-> {<<1, INIT_COUNTER>>, <<2, INIT_COUNTER>>}, replayed |-> FALSE,
               load |-> [p \in Ctx |-> "off"], handled |-> {}, aged |-> {}, honest |-> HonestOff]

\* The established state after the clock passed both rekey deadlines (four units
\* of time with no call): every timer and queue priority set so far is overdue.
Overdue(st) == [st EXCEPT !.timeout_timer = -1, !.queue_timer = -1]
InitRekeyDue ==
    /\ sessions = [s \in Sess |-> IF s = 1 THEN Overdue(EstAlice)
                                  ELSE IF s = 2 THEN Overdue(EstBob) ELSE NoSession]
    /\ session_map = [p \in Ctx |-> [k \in Kids |-> IF k = 1 THEN (IF p = "alice" THEN 1 ELSE 2) ELSE 0]]
    /\ cache = [i \in Slots |-> NoSlot]
    /\ has_pending = TRUE
    /\ store = [p \in Ctx |-> [state1 |-> EstRatchet, state2 |-> RNull]]
    /\ net = EstNet
    /\ nextAtt = 2
    /\ nextEpoch = 2
    /\ enc_log = {Enc("bob", 1, "C1", INIT_COUNTER), Enc("alice", 1, "C2", INIT_COUNTER)}
    /\ nonce_reused = FALSE
    /\ ret = NoRet
    /\ service_pc = [p \in Ctx |-> "idle"]
    /\ thr = ThrInit
    /\ hist = [registered |-> [s \in Sess |-> IF s \in {1, 2} THEN {1} ELSE {}],
               accepted |-> {<<1, INIT_COUNTER>>, <<2, INIT_COUNTER>>}, replayed |-> FALSE,
               load |-> [p \in Ctx |-> "off"], handled |-> {}, aged |-> {}, honest |-> HonestOff]

\* The state after open, X1 and X2 were each received once with no time elapsed:
\* alice's session 1 is in A3 with X3 sent, bob holds the StateB2 in his cache.
A3Alice ==
    [NoSession EXCEPT
        !.exists = TRUE, !.held = TRUE, !.was_bob = FALSE, !.beta = "A3", !.att = 1,
        !.key_index = 1,
        !.keys = [i \in 0..1 |-> IF i = 0 THEN [recv_kid |-> 1, send_kid |-> 1, ek |-> 1]
                                 ELSE NoKeys],
        !.ratchet_state1 = EstRatchet, !.ratchet_state2 = REmpty,
        !.resend_timer = ResendTime, !.timeout_timer = InitialOfferTimeout,
        !.queued = TRUE, !.queue_timer = ResendTime]
InitA3 ==
    /\ sessions = [s \in Sess |-> IF s = 1 THEN A3Alice ELSE NoSession]
    /\ session_map = [p \in Ctx |-> [k \in Kids |-> IF k = 1 /\ p = "alice" THEN 1 ELSE 0]]
    /\ cache = [i \in Slots |-> IF i = 1 THEN [NoSlot EXCEPT !.local_id = 1, !.timeout = INITIAL_OFFER_TIMEOUT_MS, !.b2 = 1, !.att = 1, !.ratchet_state = REmpty, !.kid_send = 1] ELSE NoSlot]
    /\ has_pending = TRUE
    /\ store = [p \in Ctx |-> IF p = "alice" THEN [state1 |-> EstRatchet, state2 |-> REmpty] ELSE new_initial_states]
    /\ net = {p \in EstNet : p.type \in {"X1", "X2", "X3"}}
    /\ nextAtt = 2
    /\ nextEpoch = 2
    /\ enc_log = {}
    /\ nonce_reused = FALSE
    /\ ret = NoRet
    /\ service_pc = [p \in Ctx |-> "idle"]
    /\ thr = ThrInit
    /\ hist = [registered |-> [s \in Sess |-> IF s = 1 THEN {1} ELSE {}],
               accepted |-> {}, replayed |-> FALSE, load |-> [p \in Ctx |-> "off"], handled |-> {}, aged |-> {}, honest |-> HonestOff]

\* The established state with both applications about to send under load: each
\* calls service between two sends.
InitLoad ==
    /\ sessions = [s \in Sess |-> IF s = 1 THEN EstAlice ELSE IF s = 2 THEN EstBob ELSE NoSession]
    /\ session_map = [p \in Ctx |-> [k \in Kids |-> IF k = 1 THEN (IF p = "alice" THEN 1 ELSE 2) ELSE 0]]
    /\ cache = [i \in Slots |-> NoSlot]
    /\ has_pending = TRUE
    /\ store = [p \in Ctx |-> [state1 |-> EstRatchet, state2 |-> RNull]]
    /\ net = EstNet
    /\ nextAtt = 2
    /\ nextEpoch = 2
    /\ enc_log = {Enc("bob", 1, "C1", INIT_COUNTER), Enc("alice", 1, "C2", INIT_COUNTER)}
    /\ nonce_reused = FALSE
    /\ ret = NoRet
    /\ service_pc = [p \in Ctx |-> "idle"]
    /\ thr = ThrInit
    /\ hist = [registered |-> [s \in Sess |-> IF s \in {1, 2} THEN {1} ELSE {}],
               accepted |-> {<<1, INIT_COUNTER>>, <<2, INIT_COUNTER>>}, replayed |-> FALSE,
               load |-> [p \in Ctx |-> "ready"],
               handled |-> {<<"alice", INIT_COUNTER>>, <<"bob", INIT_COUNTER>>}, aged |-> {},
               honest |-> HonestOff]

X1Faults == {"none", "len", "drop", "tag", "storage", "requires_ratchet"}
X2Faults == {"none", "len", "tag", "tag_dh", "storage", "disallows_downgrade"}
X3Faults == {"none", "len", "tag", "reject", "reject_silent", "nodowngrade",
             "nodowngrade_silent", "storage", "save"}

CFaults == {"none", "len", "tag", "save"}
KFaults == {"none", "len", "tag", "inner", "save"}

\* Every call of the API with every outcome of the application's callbacks, and
\* no passage of time: no timer becomes due that is not overdue initially.
Next ==
    \/ Return
    \/ \E storage_ok, dh_ok \in BOOLEAN : Open(storage_ok, dh_ok)
    \/ \E pkt \in net, fault \in X1Faults : ReceiveX1(pkt, fault)
    \/ \E pkt \in net, fault \in X2Faults : ReceiveX2(pkt, fault)
    \/ \E pkt \in net, fault \in X3Faults : ReceiveX3(pkt, fault)
    \/ \E pkt \in net, fault \in CFaults, j \in Jitter : ReceiveC1(pkt, fault, j)
    \/ \E pkt \in net, fault \in CFaults, j \in Jitter : ReceiveC2(pkt, fault, j)
    \/ \E pkt \in net, fault \in CFaults : ReceiveD(pkt, fault)
    \/ \E s \in Sess : Expire(s)
    \/ \E p \in Ctx, s \in Sess, dh_ok \in BOOLEAN : ServiceSession(p, s, dh_ok)
    \/ \E p \in Ctx : ServiceEnd(p)
    \/ \E pkt \in net, fault \in KFaults : ReceiveK1(pkt, fault)
    \/ \E pkt \in net, fault \in KFaults : ReceiveK2(pkt, fault)
    \/ \E s \in Sess : SendPayload(s)
    \/ \E pkt \in net, fault \in {"none", "len", "tag"} : ReceivePayload(pkt, fault)

\* The clock advances while no queue entry is overdue: the application calls
\* service by the time service told it to.
PromptTick ==
    /\ \A s \in Sess : sessions[s].queued => sessions[s].queue_timer >= 0
    /\ Tick

\* The calls of two peers from the third handshake message on, with the clock
\* running and no injected failure other than the application rejecting the
\* initiator (packets are still lost, duplicated and reordered).
NextTimed ==
    \/ PromptTick
    \/ \E pkt \in net, fault \in {"none", "reject"} : ReceiveX3(pkt, fault)
    \/ \E pkt \in net : ReceiveD(pkt, "none")
    \/ Return
    \/ \E pkt \in net, j \in Jitter : ReceiveC1(pkt, "none", j)
    \/ \E pkt \in net, j \in Jitter : ReceiveC2(pkt, "none", j)
    \/ \E p \in Ctx, s \in Sess : ServiceSession(p, s, TRUE)
    \/ \E p \in Ctx : ServiceEnd(p)
    \/ \E pkt \in net : ReceiveK1(pkt, "none")
    \/ \E pkt \in net : ReceiveK2(pkt, "none")
    \/ \E s \in Sess : SendPayload(s)
    \/ \E pkt \in net : ReceivePayload(pkt, "none")

\* The handshake of one initiator with bob's receive calls on an X3 running
\* concurrently, step by step, and no passage of time.
NextCache ==
    \/ Return
    \/ Open(TRUE, TRUE)
    \/ \E pkt \in net : ReceiveX1(pkt, "none")
    \/ \E pkt \in net : ReceiveX2(pkt, "none")
    \/ \E t \in Threads, pkt \in net : X3Get(t, pkt)
    \/ \E t \in Threads : X3Remove(t)
    \/ \E t \in Threads, fault \in {"none", "reject"} : X3Trans(t, fault)

\* No receive call was made with packet pkt yet, and it is the oldest such
\* packet for its destination: the network delivers in order.
Unseen(pkt) ==
    /\ <<pkt.to, pkt.c>> \in InFlight(hist.handled)
    /\ \A c \in 0..pkt.c : <<pkt.to, c>> \in InFlight(hist.handled) => c = pkt.c
\* The clock advances under prompt service, and no packet stays in flight over
\* two advances of the clock.
LiveTick ==
    /\ InFlight(hist.handled) \cap hist.aged = {}
    /\ PromptTick
\* The deliveries of a network that loses and duplicates nothing, per packet type.
DeliverC1 == \E pkt \in net, j \in Jitter : Unseen(pkt) /\ ReceiveC1(pkt, "none", j)
DeliverC2 == \E pkt \in net, j \in Jitter : Unseen(pkt) /\ ReceiveC2(pkt, "none", j)
DeliverK1 == \E pkt \in net : Unseen(pkt) /\ ReceiveK1(pkt, "none")
DeliverK2 == \E pkt \in net : Unseen(pkt) /\ ReceiveK2(pkt, "none")
DeliverPayload == \E pkt \in net : Unseen(pkt) /\ ReceivePayload(pkt, "none")
\* A send of the application under load: it called service since its last send.
LoadSend == \E s \in {1} : hist.load[Owner(s)] = "ready" /\ SendPayload(s)
\* The service calls: one loop iteration, or the end of the call.
Service ==
    \/ \E p \in Ctx, s \in Sess : ServiceSession(p, s, TRUE)
    \/ \E p \in Ctx : ServiceEnd(p)

\* Two established peers under load: payloads are sent with service called
\* between the sends of a context, the clock runs, service is prompt, no callback
\* fails and the network delivers each packet once, in order.
NextLive ==
    \/ Return
    \/ LiveTick
    \/ LoadSend
    \/ Service
    \/ DeliverC1
    \/ DeliverC2
    \/ DeliverK1
    \/ DeliverK2
    \/ DeliverPayload

\* The receive loop and the service loop of an application keep running: a call
\* that can be made again and again is made, and a packet that stays deliverable
\* is delivered.
Fairness ==
    /\ WF_vars(Return)
    /\ SF_vars(LiveTick)
    /\ \A p \in Ctx :
        /\ SF_vars(\E s \in Sess : ServiceSession(p, s, TRUE))
        /\ SF_vars(ServiceEnd(p))
    /\ SF_vars(DeliverC1 /\ sessions' # sessions)
    /\ SF_vars(DeliverC2 /\ sessions' # sessions)
    /\ SF_vars(DeliverK1 /\ sessions' # sessions)
    /\ SF_vars(DeliverK2 /\ sessions' # sessions)
    /\ SF_vars(DeliverPayload /\ sessions' # sessions)

\* Both established peers reach their rekey deadline together: the state of
\* InitLoad with the timers of both sessions run out.
InitCross ==
    /\ sessions = [s \in Sess |-> IF s = 1 THEN Overdue(EstAlice)
                                  ELSE IF s = 2 THEN Overdue(EstBob) ELSE NoSession]
    /\ session_map = [p \in Ctx |-> [k \in Kids |-> IF k = 1 THEN (IF p = "alice" THEN 1 ELSE 2) ELSE 0]]
    /\ cache = [i \in Slots |-> NoSlot]
    /\ has_pending = TRUE
    /\ store = [p \in Ctx |-> [state1 |-> EstRatchet, state2 |-> RNull]]
    /\ net = EstNet
    /\ nextAtt = 2
    /\ nextEpoch = 2
    /\ enc_log = {Enc("bob", 1, "C1", INIT_COUNTER), Enc("alice", 1, "C2", INIT_COUNTER)}
    /\ nonce_reused = FALSE
    /\ ret = NoRet
    /\ service_pc = [p \in Ctx |-> "idle"]
    /\ thr = ThrInit
    /\ hist = [registered |-> [s \in Sess |-> IF s \in {1, 2} THEN {1} ELSE {}],
               accepted |-> {<<1, INIT_COUNTER>>, <<2, INIT_COUNTER>>}, replayed |-> FALSE,
               load |-> [p \in Ctx |-> "ready"],
               handled |-> {<<"alice", INIT_COUNTER>>, <<"bob", INIT_COUNTER>>}, aged |-> {},
               honest |-> HonestOff]
\* The rekey of two peers whose timers fire together: the service calls, the
\* clock under prompt service, and a network that delivers each control packet
\* once, in order, before the clock advances twice; no callback fails.
NextCross ==
    \/ Return
    \/ LiveTick
    \/ Service
    \/ DeliverK1
    \/ DeliverK2
    \/ DeliverC1
    \/ DeliverC2
\* The service loop and the receive loop keep running: a call that can be made
\* again and again is made, and a packet in flight is delivered.
FairCross ==
    /\ WF_vars(Return)
    /\ SF_vars(LiveTick)
    /\ \A p \in Ctx :
        /\ SF_vars(\E s \in Sess : ServiceSession(p, s, TRUE))
        /\ SF_vars(ServiceEnd(p))
    /\ SF_vars(DeliverK1)
    /\ SF_vars(DeliverK2)
    /\ SF_vars(DeliverC1)
    /\ SF_vars(DeliverC2)

\* Construction, with the history of a run between honest peers switched on: the
\* key ids each context has used, the packets a receive call acted on (it changed
\* a session or the session map) and the number of times the clock advanced.
InitHonest ==
    /\ sessions = [s \in Sess |-> NoSession]
    /\ session_map = [p \in Ctx |-> [k \in Kids |-> 0]]
    /\ cache = [i \in Slots |-> NoSlot]
    /\ has_pending = FALSE
    /\ store = [p \in Ctx |-> new_initial_states]
    /\ net = {}
    /\ nextAtt = 1
    /\ nextEpoch = 1
    /\ enc_log = {}
    /\ nonce_reused = FALSE
    /\ ret = NoRet
    /\ service_pc = [p \in Ctx |-> "idle"]
    /\ thr = ThrInit
    /\ hist = [HistInit EXCEPT !.honest.on = TRUE]
\* The same, with the clock's advances not counted.
InitFair ==
    /\ sessions = [s \in Sess |-> NoSession]
    /\ session_map = [p \in Ctx |-> [k \in Kids |-> 0]]
    /\ cache = [i \in Slots |-> NoSlot]
    /\ has_pending = FALSE
    /\ store = [p \in Ctx |-> new_initial_states]
    /\ net = {}
    /\ nextAtt = 1
    /\ nextEpoch = 1
    /\ enc_log = {}
    /\ nonce_reused = FALSE
    /\ ret = NoRet
    /\ service_pc = [p \in Ctx |-> "idle"]
    /\ thr = ThrInit
    /\ hist = [HistInit EXCEPT !.honest.on = TRUE, !.honest.ticks = MaxTicks]
\* The transport does not duplicate: no receive call has acted on packet pkt.  (A
\* call that changed no session and answered no X1 is not counted: leaving it
\* out of the run, or the later call on the same packet, gives a run without
\* the duplicate; a resent X1 or X3 is in flight once more.)
Fresh(pkt) == pkt \notin hist.honest.seen
\* Packet pkt announces a key id gen_kid has just drawn: it is no resend of an
\* announcement made under the same key.
Drawn(pkt) ==
    /\ pkt.type \in {"X1", "X2", "K1", "K2"}
    /\ ~\E q \in net : /\ q.type = pkt.type /\ q.to = pkt.to
                       /\ q.nkid = pkt.nkid /\ q.key = pkt.key
                       /\ q.att = pkt.att /\ q.ep = pkt.ep
\* gen_kid draws a key id the context has not used before: its 32-bit random
\* draws do not collide, with a registered key id or with one held by the cache.
FreshKids ==
    /\ \A p \in Ctx : \A k \in UsedKids(p)' \ UsedKids(p) : k \notin hist.honest.used[p]
    /\ \A pkt \in net' \ net :
          Drawn(pkt) => pkt.nkid \notin hist.honest.used[Peer(pkt.to)] \cup UsedKids(Peer(pkt.to))
\* The receive calls on a transport that loses, delays and reorders packets and
\* neither corrupts nor duplicates them.
Deliver ==
    \E pkt \in net :
        /\ Fresh(pkt)
        /\ \/ ReceiveX1(pkt, "none")
           \/ ReceiveX2(pkt, "none")
           \/ ReceiveX3(pkt, "none")
           \/ \E j \in Jitter : ReceiveC1(pkt, "none", j)
           \/ \E j \in Jitter : ReceiveC2(pkt, "none", j)
           \/ ReceiveK1(pkt, "none")
           \/ ReceiveK2(pkt, "none")
           \/ ReceivePayload(pkt, "none")
           \/ ReceiveUnassociated(pkt)
\* The clock advances under prompt service, MaxTicks times at most.
HonestTick ==
    /\ hist.honest.ticks < MaxTicks
    /\ PromptTick
\* Two honest peers from construction, with the clock running, service prompt
\* and no callback failing or rejecting the peer; the initiator sends the
\* payloads.
NextHonest ==
    \/ Return
    \/ HonestTick
    \/ Open(TRUE, TRUE) /\ FreshKids
    \/ Deliver /\ FreshKids
    \/ \E p \in Ctx, s \in Sess : ServiceSession(p, s, TRUE) /\ FreshKids
    \/ \E p \in Ctx : ServiceEnd(p)
    \/ SendPayload(1)

\* The initiator's receive has returned Established, and the responder holds a
\* session (its receive returned NewSession).
Established ==
    /\ ret.op = "C1" /\ ret.res = "Established"
    /\ \E s \in Sess : Owner(s) = "bob" /\ sessions[s].exists
\* The handshake attempts, responder ephemerals or responder sessions the model
\* provides are used up.
Exhausted ==
    \/ nextAtt > MaxAtt
    \/ nextEpoch > MaxEpoch
    \/ \A s \in Sess : Owner(s) = "bob" => sessions[s].exists
\* The run is followed until the initiator is in S2 or the model's supply is
\* used up.
Running == sessions[1].beta # "S2" /\ ~Exhausted
\* An X1 is delivered once: the X2 that answers it has not been sent.
FairX1 ==
    \E pkt \in net :
        /\ Fresh(pkt)
        /\ ~\E q \in net : q.type = "X2" /\ q.att = pkt.att
        /\ ReceiveX1(pkt, "none")
FairX2 == \E pkt \in net : Fresh(pkt) /\ ReceiveX2(pkt, "none")
FairX3 == \E pkt \in net : Fresh(pkt) /\ ReceiveX3(pkt, "none")
FairC1 == \E pkt \in net, j \in Jitter : Fresh(pkt) /\ ReceiveC1(pkt, "none", j)
FairLate == \E pkt \in net : Fresh(pkt) /\ ReceiveUnassociated(pkt)
\* Two honest peers from construction while Running: open, the receive calls of
\* the handshake packets that arrive, service, and the clock.
NextFair ==
    \/ Return
    \/ Running /\ PromptTick
    \/ Running /\ Open(TRUE, TRUE)
    \/ Running /\ FairX1
    \/ Running /\ FairX2
    \/ Running /\ FairX3
    \/ Running /\ FairC1
    \/ Running /\ FairLate
    \/ Running /\ Service
\* Fair loss: the application keeps calling service and receive, the clock
\* advances, and of the packets of a kind that are resent again and again one
\* that the receiver can act on gets through.
FairLoss ==
    /\ WF_vars(Return)
    /\ SF_vars(Running /\ PromptTick)
    /\ \A p \in Ctx :
        /\ SF_vars(Running /\ \E s \in Sess : ServiceSession(p, s, TRUE))
        /\ SF_vars(Running /\ ServiceEnd(p))
    /\ SF_vars(Running /\ FairX1 /\ cache' # cache)
    /\ SF_vars(Running /\ FairX2 /\ sessions' # sessions)
    /\ SF_vars(Running /\ FairX3 /\ sessions' # sessions)
    /\ SF_vars(Running /\ FairC1 /\ sessions' # sessions)

\* The handshake of two peers whose responder application may reject the
\* initiator, with the clock running MaxTicks times at most: every packet is
\* acted on once, a D also arrives with a wrong length or a failing tag, and
\* gen_kid may draw a key id again that was released.
NextReject ==
    \/ Return
    \/ HonestTick
    \/ Open(TRUE, TRUE)
    \/ \E pkt \in net : Fresh(pkt) /\ ReceiveX1(pkt, "none")
    \/ \E pkt \in net : Fresh(pkt) /\ ReceiveX2(pkt, "none")
    \/ \E pkt \in net, fault \in {"none", "reject"} : Fresh(pkt) /\ ReceiveX3(pkt, fault)
    \/ \E pkt \in net, fault \in CFaults : Fresh(pkt) /\ ReceiveD(pkt, fault)
    \/ \E pkt \in net, j \in Jitter : Fresh(pkt) /\ ReceiveC1(pkt, "none", j)
    \/ \E pkt \in net, j \in Jitter : Fresh(pkt) /\ ReceiveC2(pkt, "none", j)
    \/ Service

\* ------------------------------------------------------------ the locks
\* The order ContextInner declares for its locks and a session's.
LockOrder == <<"session_queue", "state_machine_lock", "state", "session_map">>
Ranked(class) == \E i \in 1..Len(LockOrder) : LockOrder[i] = class
Rank(class) == CHOOSE i \in 1..Len(LockOrder) : LockOrder[i] = class

\* A lock operation of a call. obj tells the objects of one class apart: 0 is
\* the context's lock or the lock of the session both peers' packets address,
\* t the lock of the session that call t is constructing. A Mutex is taken in
\* mode "w", a RwLock in "r" or "w".
Acq(class, obj, mode) == [op |-> "acq", class |-> class, obj |-> obj, mode |-> mode]
Rel(class, obj) == [op |-> "rel", class |-> class, obj |-> obj, mode |-> "none"]

\* trans_to_a1: the queue and the map are held to the end of the call, gen_kid
\* holds the rng for its statement, and the state of the session just built is
\* locked to set its key id.
trans_to_a1_locks(t) ==
    <<Acq("session_queue", 0, "w"), Acq("session_map", 0, "w"),
      Acq("rng", 0, "w"), Rel("rng", 0),
      Acq("state", t, "w"), Rel("state", t),
      Rel("session_map", 0), Rel("session_queue", 0)>>

\* remap, called by timeout_trans with the session's state held.
remap_locks ==
    <<Acq("session_map", 0, "w"), Acq("rng", 0, "w"), Rel("rng", 0), Rel("session_map", 0)>>

\* Context::receive on a packet for a registered key id: the map's read guard
\* lives for the lookup statement, the state's to the end of the header check.
receive_locks ==
    <<Acq("session_map", 0, "r"), Rel("session_map", 0),
      Acq("state", 0, "r"), Rel("state", 0)>>

\* received_x2_trans: the state machine lock, the state read, then written;
\* on a fault timeout_trans runs before the guards are dropped.
received_x2_trans_locks(fault) ==
    <<Acq("state_machine_lock", 0, "w"), Acq("state", 0, "r"), Rel("state", 0),
      Acq("state", 0, "w")>>
    \o (IF fault THEN remap_locks ELSE <<>>)
    \o <<Rel("state", 0), Rel("state_machine_lock", 0)>>

\* received_x1_trans: gen_kid under the map's read guard.
received_x1_trans_locks ==
    <<Acq("session_map", 0, "r"), Acq("rng", 0, "w"), Rel("rng", 0), Rel("session_map", 0)>>

\* received_x3_trans: the map entry is taken and the session added to
\* ctx.sessions before the map's guard is dropped.
received_x3_trans_locks ==
    <<Acq("session_map", 0, "w"), Acq("sessions", 0, "w"), Rel("sessions", 0),
      Rel("session_map", 0)>>

\* Context::send: the payload is encrypted under the state's read guard.
send_locks == <<Acq("state", 0, "r"), Rel("state", 0)>>

\* process_timers on the session at the head of the queue: its transitions
\* run under the state machine lock and the state, a timeout remaps.
process_timers_locks(timeout) ==
    <<Acq("state_machine_lock", 0, "w"), Acq("state", 0, "w")>>
    \o (IF timeout THEN remap_locks ELSE <<>>)
    \o <<Rel("state", 0), Rel("state_machine_lock", 0)>>

\* Context::service: the queue is held over the loop, then the two caches
\* are serviced one after the other.
service_locks(timeout) ==
    <<Acq("session_queue", 0, "w")>>
    \o process_timers_locks(timeout)
    \o <<Rel("session_queue", 0),
         Acq("unassociated_defrag_cache", 0, "w"), Rel("unassociated_defrag_cache", 0),
         Acq("cache", 0, "w"), Rel("cache", 0)>>

\* The lock paths of the calls thread t can make on the context.
LockPaths(t) ==
    {trans_to_a1_locks(t), received_x1_trans_locks, received_x3_trans_locks, send_locks}
    \cup {receive_locks \o received_x2_trans_locks(fault) : fault \in BOOLEAN}
    \cup {service_locks(timeout) : timeout \in BOOLEAN}

\* Everything but the calls' positions.
data == <<sessions, session_map, cache, has_pending, store, net, nextAtt,
          nextEpoch, enc_log, nonce_reused, ret, service_pc, hist>>

\* The operation thread t is at.
AtStep(t) == thr.lk[t].path[thr.lk[t].pc]
Waiting(t, op) == thr.lk[t].pc <= Len(thr.lk[t].path) /\ AtStep(t).op = op

\* The threads whose guards keep step from being granted: a write excludes
\* every guard on the object, a read every write; the guards of the asking
\* thread count as well (std's locks are not reentrant).
Holders(step) ==
    {u \in Threads : \E i \in 1..Len(thr.lk[u].held) :
        LET h == thr.lk[u].held[i] IN
        /\ h.class = step.class /\ h.obj = step.obj
        /\ (h.mode = "w" \/ step.mode = "w")}

\* Thread t enters a call.
LockCall(t, path) ==
    /\ thr.lk[t] = NoPath
    /\ thr' = [thr EXCEPT !.lk[t] = [path |-> path, pc |-> 1, held |-> <<>>]]
    /\ UNCHANGED data

\* lock() / read() / write() returns to thread t.
Acquire(t) ==
    /\ Waiting(t, "acq")
    /\ Holders(AtStep(t)) = {}
    /\ thr' = [thr EXCEPT !.lk[t].held = Append(@, [class |-> AtStep(t).class, obj |-> AtStep(t).obj,
                                                    mode |-> AtStep(t).mode]),
                          !.lk[t].pc = @ + 1]
    /\ UNCHANGED data

\* Thread t drops a guard; the call returns with its last one.
Release(t) ==
    LET step == AtStep(t)
        left == SelectSeq(thr.lk[t].held, LAMBDA h : ~(h.class = step.class /\ h.obj = step.obj))
    IN
    /\ Waiting(t, "rel")
    /\ thr' = [thr EXCEPT !.lk[t] = IF thr.lk[t].pc = Len(thr.lk[t].path) THEN NoPath
                                    ELSE [@ EXCEPT !.held = left, !.pc = @ + 1]]
    /\ UNCHANGED data

NextLock ==
    \/ \E t \in Threads : \E path \in LockPaths(t) : LockCall(t, path)
    \/ \E t \in Threads : Acquire(t)
    \/ \E t \in Threads : Release(t)

\* receive of a CHALLENGE by alice: the session the packet names is looked up
\* and respond_to_challenge fills the response slot of its hello.
ReceiveChallenge(pkt) ==
    /\ Idle
    /\ pkt \in net /\ pkt.type = "CHALLENGE"
    /\ ret' = RetOf(pkt, 0, IF Lookup(pkt.to, pkt.nkid) # 0 THEN "Unassociated" ELSE "UnknownLocalKeyId",
                    Lookup(pkt.to, pkt.nkid) = 0)
    /\ NoEnc
    /\ UNCHANGED <<sessions, session_map, cache, has_pending, store, net, nextAtt, nextEpoch,
                   service_pc, thr>>
    /\ Ghost({})

\* The handshake against a responder whose application may allow, challenge
\* or drop each hello, with no passage of time.
NextChallenge ==
    \/ Return
    \/ Open(TRUE, TRUE)
    \/ \E pkt \in net, fault \in {"none", "challenge", "drop"} : ReceiveX1(pkt, fault)
    \/ \E pkt \in net : ReceiveChallenge(pkt)
    \/ \E pkt \in net, fault \in {"none", "tag"} : ReceiveX2(pkt, fault)
    \/ \E pkt \in net : ReceiveX3(pkt, "none")
    \/ \E pkt \in net, j \in Jitter : ReceiveC1(pkt, "none", j)

\* The network delivers a rekey packet no peer sent: any type, destination,
\* header key id and counter, and a tag that verifies under no key.  One such
\* packet per run.
Inject(type, to, kid, c) ==
    /\ Idle
    /\ \A q \in net : q.type \in {"K1", "K2"} => q.key # 0
    /\ net' = net \cup {Pkt(type, to, kid, c, 0, 0, 0, 0, 0, 0, 0)}
    /\ UNCHANGED <<sessions, session_map, cache, has_pending, store, nextAtt, nextEpoch, ret,
                   service_pc, thr>>
    /\ NoEnc
    /\ Ghost({})
\* Two established peers with the clock running, rekeying, on a network that
\* also delivers one forged rekey packet.
NextForged ==
    \/ Return
    \/ PromptTick
    \/ Service
    \/ \E type \in {"K1", "K2"}, to \in Ctx, kid \in Kids, c \in 0..MaxCounter :
            Inject(type, to, kid, c)
    \/ \E pkt \in net, j \in Jitter : ReceiveC1(pkt, "none", j)
    \/ \E pkt \in net, j \in Jitter : ReceiveC2(pkt, "none", j)
    \/ \E pkt \in net : ReceiveK1(pkt, "none")
    \/ \E pkt \in net : ReceiveK2(pkt, "none")

\* The ratchet states an application may hold for a peer from earlier sessions:
\* the initial states, or a state1 left by a handshake or rekey (ids beyond the
\* ephemerals of this run) with the state2 kept beside it, which is absent, or
\* one link shorter than state1, or any when state1 restarted the chain.
MaxChain == 2
OldRatchets == {RNonEmpty(MaxEpoch + i, n) : i \in 1..2, n \in 1..MaxChain}
StoredStates ==
    {new_initial_states} \cup
    {st \in [state1 : OldRatchets, state2 : {RNull, REmpty} \cup OldRatchets] :
        /\ RKey(st.state1) # RKey(st.state2)
        /\ \/ st.state2 = RNull
           \/ st.state1.chain_len = st.state2.chain_len + 1
           \/ st.state1.chain_len = 1}
\* No session yet, and each peer's storage holds any of these states.
InitRatchets ==
    /\ sessions = [s \in Sess |-> NoSession]
    /\ session_map = [p \in Ctx |-> [k \in Kids |-> 0]]
    /\ cache = [i \in Slots |-> NoSlot]
    /\ has_pending = FALSE
    /\ store \in [Ctx -> StoredStates]
    /\ net = {}
    /\ nextAtt = 1
    /\ nextEpoch = 1
    /\ enc_log = {}
    /\ nonce_reused = FALSE
    /\ ret = NoRet
    /\ service_pc = [p \in Ctx |-> "idle"]
    /\ thr = ThrInit
    /\ hist = HistInit
\* ------------------------------------------------- send_with_fragmentation
\* The header is kid_recv(4), fragment_no(1), fragment_count(1), nonce(10); a
\* header byte holds a value below ByteRange (`as u8`).
HEADER_SIZE == 16
MIN_TRANSPORT_MTU == 128
ByteRange == 256
MaxPayload == 230
MaxMtu == 130
MaxFail == 3

\* `payload_len.saturating_add(payload_mtu - 1) / payload_mtu`
fragment_count(payload_len, payload_mtu) == (payload_len + payload_mtu - 1) \div payload_mtu
\* `(fragment_no < fragment_size_remainder) as usize`
fragment_extra_none(fragment_no, fragment_size_remainder) == 0
fragment_extra(fragment_no, fragment_size_remainder) ==
    IF fragment_no < fragment_size_remainder THEN 1 ELSE 0

\* A call of send_with_fragmentation on a packet of HEADER_SIZE + payload_len
\* bytes with MTU mtu, at the head of its loop: i is the offset of the next
\* fragment's payload, sent the fragments handed to the send callback so far.
\* The callback returns false on its fail-th call (never when fail = 0).
FragCall(payload_len, mtu, fail) ==
    [pc |-> "loop", payload_len |-> payload_len, mtu |-> mtu, fail |-> fail,
     fragment_no |-> 0, i |-> HEADER_SIZE, sent |-> <<>>, result |-> TRUE]

\* The packets that need more fragments than a header byte can count, and the
\* largest that do not, at the smallest MTU.
LargePayloads ==
    {(ByteRange - 1) * (MIN_TRANSPORT_MTU - HEADER_SIZE) + d : d \in 0..1}

InitFrag ==
    /\ sessions = [s \in Sess |-> NoSession]
    /\ session_map = [p \in Ctx |-> [k \in Kids |-> 0]]
    /\ cache = [i \in Slots |-> NoSlot]
    /\ has_pending = FALSE
    /\ store = [p \in Ctx |-> new_initial_states]
    /\ net = {}
    /\ nextAtt = 1
    /\ nextEpoch = 1
    /\ enc_log = {}
    /\ nonce_reused = FALSE
    /\ ret = NoRet
    /\ service_pc = [p \in Ctx |-> "idle"]
    /\ \E payload_len \in (1..MaxPayload) \cup LargePayloads,
          mtu \in MIN_TRANSPORT_MTU..MaxMtu, fail \in 0..MaxFail :
            thr = FragCall(payload_len, mtu, fail)
    /\ hist = HistInit

\* One iteration of the loop: the fragment [i - HEADER_SIZE, j) gets the header
\* with its number and the count, each cast to a byte, and is handed to send.
SendFragment ==
    LET payload_mtu == thr.mtu - HEADER_SIZE
        count == fragment_count(thr.payload_len, payload_mtu)
        fragment_base_size == thr.payload_len \div count
        fragment_size_remainder == thr.payload_len % count
        j == thr.i + fragment_base_size + fragment_extra(thr.fragment_no, fragment_size_remainder)
        fragment == [fragment_no |-> thr.fragment_no % ByteRange,
                     fragment_count |-> count % ByteRange,
                     len |-> j - (thr.i - HEADER_SIZE)]
    IN
    /\ thr.pc = "loop"
    /\ thr.fragment_no < count
    /\ thr' = IF thr.fail = thr.fragment_no + 1
              THEN [thr EXCEPT !.sent = Append(thr.sent, fragment), !.pc = "done",
                               !.result = FALSE]
              ELSE [thr EXCEPT !.sent = Append(thr.sent, fragment), !.i = j,
                               !.fragment_no = thr.fragment_no + 1]
    /\ UNCHANGED <<sessions, session_map, cache, has_pending, store, net, nextAtt,
                   nextEpoch, enc_log, nonce_reused, ret, service_pc, hist>>

\* The loop ran over every fragment: the call returns true.
FragReturn ==
    /\ thr.pc = "loop"
    /\ thr.fragment_no = fragment_count(thr.payload_len, thr.mtu - HEADER_SIZE)
    /\ thr' = [thr EXCEPT !.pc = "done"]
    /\ UNCHANGED <<sessions, session_map, cache, has_pending, store, net, nextAtt,
                   nextEpoch, enc_log, nonce_reused, ret, service_pc, hist>>

NextFrag ==
    \/ SendFragment
    \/ FragReturn

\* The first two messages of the handshake of one initiator, alice's receive
\* calls on an X2 running concurrently, step by step, and no passage of time.
NextResponse ==
    \/ Return
    \/ Open(TRUE, TRUE)
    \/ \E pkt \in net : ReceiveX1(pkt, "none")
    \/ \E t \in Threads, pkt \in net : X2Check(t, pkt)
    \/ \E t \in Threads : X2Trans(t, "none")

\* Two established peers whose applications send, drop their sessions and call
\* service as the clock runs, rekeying when the timers say so.
NextService ==
    \/ Return
    \/ PromptTick
    \/ Service
    \/ \E s \in Sess : Drop(s)
    \/ \E s \in Sess : SendPayload(s)
    \/ \E pkt \in net : ReceiveK1(pkt, "none")
    \/ \E pkt \in net : ReceiveK2(pkt, "none")

\* A service call that was entered runs to its end: the loop of Context::service
\* holds the queue's lock and waits for nothing.
ServiceRuns ==
    \A p \in Ctx :
        /\ WF_vars(\E s \in Sess : ServiceSession(p, s, TRUE))
        /\ WF_vars(ServiceEnd(p))

\* Two established peers exchanging DATA packets, each packet received any number
\* of times, whole or in fragments, by receive calls that run concurrently.
NextReplay ==
    \/ Return
    \/ \E s \in Sess : SendPayload(s)
    \/ \E t \in Threads, pkt \in net, last \in BOOLEAN : PayloadCheck(t, pkt, last)
    \/ \E t \in Threads : PayloadTrans(t, "none")

\* The three messages of a handshake between peers with any stored ratchets, the
\* responder's application accepting or rejecting the initiator.
NextRatchets ==
    \/ Return
    \/ Open(TRUE, TRUE)
    \/ \E pkt \in net, fault \in {"none", "requires_ratchet"} : ReceiveX1(pkt, fault)
    \/ \E pkt \in net, fault \in {"none", "disallows_downgrade"} : ReceiveX2(pkt, fault)
    \/ \E pkt \in net, fault \in X3Faults : ReceiveX3(pkt, fault)

\* The timed runs with a key agreement in timeout_trans that may fail.
NextTimeout ==
    \/ NextTimed
    \/ \E p \in Ctx, s \in Sess : ServiceSession(p, s, FALSE)

\* The calls of the unassociated-handshake cache, each with any local id: insert
\* of a StateB2 (told apart by its ephemeral b2), remove and service.
cache_insert(local_id, b2) ==
    /\ Idle
    /\ cache' = CacheInsert(cache, local_id, [NoSlot EXCEPT !.b2 = b2])
    /\ has_pending' = (has_pending \/ InsertScan(cache, local_id, 1) # 0)
    /\ UNCHANGED <<sessions, session_map, store, net, nextAtt, nextEpoch, ret, service_pc, thr>>
    /\ NoEnc
    /\ Ghost({})
cache_remove(local_id) ==
    /\ Idle
    /\ cache' = CacheRemove(cache, local_id)
    /\ UNCHANGED <<sessions, session_map, has_pending, store, net, nextAtt, nextEpoch, ret,
                   service_pc, thr>>
    /\ NoEnc
    /\ Ghost({})
cache_service ==
    /\ Idle
    /\ IF has_pending
       THEN /\ cache' = CacheService(cache)
            /\ has_pending' = (\E i \in Slots : cache'[i].local_id # 0)
       ELSE UNCHANGED <<cache, has_pending>>
    /\ UNCHANGED <<sessions, session_map, store, net, nextAtt, nextEpoch, ret, service_pc, thr>>
    /\ NoEnc
    /\ Ghost({})
\* The ids the cache is called with: one more than it has slots.
LocalIds == 1..(MAX_UNASSOCIATED_HANDSHAKE_STATES + 1)
\* Any sequence of calls on the cache, with the clock running.
NextCacheCalls ==
    \/ \E local_id \in LocalIds, b2 \in 1..MaxEpoch : cache_insert(local_id, b2)
    \/ \E local_id \in LocalIds : cache_remove(local_id)
    \/ cache_service
    \/ Tick

\* The cache under concurrent calls.  A thread is idle or inside one call; lock
\* is the thread holding the write lock of the cache, 0 when it is free; last is
\* what the thread's last call did.
RaceIdle == [pc |-> "idle", last |-> "none"]
InitRace ==
    /\ sessions = [s \in Sess |-> NoSession]
    /\ session_map = [p \in Ctx |-> [k \in Kids |-> 0]]
    /\ cache = [i \in Slots |-> NoSlot]
    /\ has_pending = FALSE
    /\ store = [p \in Ctx |-> new_initial_states]
    /\ net = {}
    /\ nextAtt = 1
    /\ nextEpoch = 1
    /\ enc_log = {}
    /\ nonce_reused = FALSE
    /\ ret = NoRet
    /\ service_pc = [p \in Ctx |-> "idle"]
    /\ thr = [at |-> [t \in Threads |-> RaceIdle], lock |-> 0]
    /\ hist = HistInit
RaceFrame ==
    UNCHANGED <<sessions, session_map, store, net, nextAtt, nextEpoch, enc_log,
                nonce_reused, ret, service_pc, hist>>
\* insert, lines 51-63: the write lock is taken and the slot written; the call
\* returns at once, without touching the flag, when the id is already cached.
RaceInsert(t, local_id, b2) ==
    /\ thr.at[t].pc = "idle" /\ thr.lock = 0
    /\ cache' = CacheInsert(cache, local_id, [NoSlot EXCEPT !.b2 = b2])
    /\ thr' = IF InsertScan(cache, local_id, 1) = 0
              THEN [thr EXCEPT !.at[t] = [pc |-> "idle", last |-> "duplicate"]]
              ELSE [thr EXCEPT !.at[t] = [pc |-> "ins_store", last |-> "inserted"],
                               !.lock = t]
    /\ UNCHANGED has_pending
    /\ RaceFrame
\* insert, line 64: has_pending.store(true), then the lock is released.
RaceInsertStore(t) ==
    /\ thr.at[t].pc = "ins_store"
    /\ has_pending' = TRUE
    /\ thr' = [thr EXCEPT !.at[t].pc = "idle", !.lock = 0]
    /\ UNCHANGED cache
    /\ RaceFrame
\* remove: the slot is cleared under the write lock; the flag is not touched.
RaceRemove(t, local_id) ==
    /\ thr.at[t].pc = "idle" /\ thr.lock = 0
    /\ cache' = CacheRemove(cache, local_id)
    /\ thr' = [thr EXCEPT !.at[t].last =
                    IF CacheFind(cache, local_id) = 0 THEN "absent" ELSE "removed"]
    /\ UNCHANGED has_pending
    /\ RaceFrame
\* service, line 81: has_pending.swap(false), before the lock is asked for.
RaceSwap(t) ==
    /\ thr.at[t].pc = "idle"
    /\ has_pending' = FALSE
    /\ thr' = IF has_pending
              THEN [thr EXCEPT !.at[t] = [pc |-> "svc_lock", last |-> "swapped"]]
              ELSE [thr EXCEPT !.at[t] = [pc |-> "svc_skip", last |-> "swapped"]]
    /\ UNCHANGED cache
    /\ RaceFrame
\* service, line 99: the call returns without a scan when the flag was false.
RaceSkip(t) ==
    /\ thr.at[t].pc = "svc_skip"
    /\ thr' = [thr EXCEPT !.at[t] = [pc |-> "idle", last |-> "skipped"]]
    /\ UNCHANGED <<cache, has_pending>>
    /\ RaceFrame
\* service, lines 83-95: the write lock is taken and the expired entries
\* cleared; the call keeps the lock for the store when an entry remains.
RaceScan(t) ==
    /\ thr.at[t].pc = "svc_lock" /\ thr.lock = 0
    /\ cache' = CacheService(cache)
    /\ thr' = IF \E i \in Slots : cache'[i].local_id # 0
              THEN [thr EXCEPT !.at[t] = [pc |-> "svc_store", last |-> "scanned"], !.lock = t]
              ELSE [thr EXCEPT !.at[t] = [pc |-> "idle", last |-> "emptied"]]
    /\ UNCHANGED has_pending
    /\ RaceFrame
RaceServiceStore_none(t) ==
    /\ thr.at[t].pc = "svc_store"
    /\ thr' = [thr EXCEPT !.at[t].pc = "idle", !.lock = 0]
    /\ UNCHANGED <<cache, has_pending>>
    /\ RaceFrame
\* service, lines 96-98: has_pending.store(true), then the lock is released.
RaceServiceStore(t) ==
    /\ thr.at[t].pc = "svc_store"
    /\ has_pending' = TRUE
    /\ thr' = [thr EXCEPT !.at[t].pc = "idle", !.lock = 0]
    /\ UNCHANGED cache
    /\ RaceFrame
\* The clock advances between calls: a call runs at the time it was made with.
RaceTick ==
    /\ \A t \in Threads : thr.at[t].pc = "idle"
    /\ Tick
\* Concurrent insert, remove and service calls on the cache, step by step.
NextRace ==
    \/ \E t \in Threads, local_id \in LocalIds, b2 \in 1..MaxEpoch : RaceInsert(t, local_id, b2)
    \/ \E t \in Threads : RaceInsertStore(t)
    \/ \E t \in Threads, local_id \in LocalIds : RaceRemove(t, local_id)
    \/ \E t \in Threads : RaceSwap(t)
    \/ \E t \in Threads : RaceSkip(t)
    \/ \E t \in Threads : RaceScan(t)
    \/ \E t \in Threads : RaceServiceStore(t)
    \/ RaceTick

\* Two established peers whose applications may drop their sessions, with the
\* clock running: a receive call is made with any packet sent so far.
NextDrop ==
    \/ Return
    \/ PromptTick
    \/ \E s \in Sess : Drop(s)
    \/ Service
    \/ \E s \in Sess : SendPayload(s)
    \/ \E pkt \in net : ReceiveUnassociated(pkt)
    \/ \E pkt \in net, j \in Jitter : ReceiveC1(pkt, "none", j)
    \/ \E pkt \in net, j \in Jitter : ReceiveC2(pkt, "none", j)
    \/ \E pkt \in net : ReceiveK1(pkt, "none")
    \/ \E pkt \in net : ReceiveK2(pkt, "none")
    \/ \E pkt \in net : ReceivePayload(pkt, "none")

\* Two established peers under load on a network that reorders and duplicates:
\* payloads are sent with service called between the sends, the clock runs,
\* service is prompt, no callback fails, and a receive call is made with any
\* packet sent so far.
NextReorder ==
    \/ Return
    \/ LiveTick
    \/ LoadSend
    \/ Service
    \/ \E pkt \in net, j \in Jitter : ReceiveC1(pkt, "none", j)
    \/ \E pkt \in net, j \in Jitter : ReceiveC2(pkt, "none", j)
    \/ \E pkt \in net : ReceiveK1(pkt, "none")
    \/ \E pkt \in net : ReceiveK2(pkt, "none")
    \/ \E pkt \in net : ReceivePayload(pkt, "none")

\* From construction, and from two established peers whose rekey is due.
Spec == (Init \/ InitRekeyDue) /\ [][Next]_vars
\* From the third handshake message on, with the clock running.
SpecTimed == InitA3 /\ [][NextTimed]_vars
\* From construction, with concurrent receive calls on an X3.
SpecCache == Init /\ [][NextCache]_vars
\* Two honest peers on a lossy, reordering transport.
SpecHonest == InitHonest /\ [][NextHonest]_vars
\* Two peers on a lossy, reordering transport, the responder free to reject.
SpecReject == InitHonest /\ [][NextReject]_vars
\* Two honest peers on a transport with fair loss, until establishment.
SpecFair == InitFair /\ [][NextFair]_vars /\ FairLoss
\* Two established peers under load on a network without loss.
SpecLive == InitLoad /\ [][NextLive]_vars /\ Fairness
\* Two established peers under load on a reordering network.
SpecReorder == InitLoad /\ [][NextReorder]_vars
\* The handshake against a responder that challenges or drops hellos.
SpecChallenge == Init /\ [][NextChallenge]_vars
\* A handshake from its third message on with the clock running and fallible
\* key agreement.
SpecTimeout == InitA3 /\ [][NextTimeout]_vars
\* Two established peers rekeying while a forged rekey packet is delivered.
SpecForged == InitEstablished /\ [][NextForged]_vars
\* A handshake up to X2 between peers with any stored ratchet states.
SpecRatchets == InitRatchets /\ [][NextRatchets]_vars

SpecReplay == InitEstablished /\ [][NextReplay]_vars

SpecResponse == Init /\ [][NextResponse]_vars

SpecFrag == InitFrag /\ [][NextFrag]_vars

SpecService == InitEstablished /\ [][NextService]_vars /\ ServiceRuns
SpecCross == InitCross /\ [][NextCross]_vars /\ FairCross
SpecRace == InitRace /\ [][NextRace]_vars
\* The unassociated-handshake cache under any sequence of its calls.
SpecCacheCalls == Init /\ [][NextCacheCalls]_vars
\* Two established peers that may drop their sessions.
SpecDrop == InitEstablished /\ [][NextDrop]_vars
\* Concurrent calls on one context, by the locks they take.
SpecLock == Init /\ [][NextLock]_vars

\* ===================================================================== claims

\* C2: no two AEAD-Encrypt calls under a session key (nk or kek) use the same
\* (key, nonce) pair, timer resends included, and the D and the C1 packet of one
\* StateB2, both at the initial counter, are never both produced.
C2_NoNonceReuse ==
    /\ ~nonce_reused
    /\ \A ep \in 1..MaxEpoch :
          ~({Enc("bob", ep, "D", INIT_COUNTER), Enc("bob", ep, "C1", INIT_COUNTER)} \subseteq enc_log)
\* C3: a packet whose counter the session has already accepted is answered with
\* ExpiredCounter: it is not accepted again, the session does not change and
\* nothing is delivered; so no counter is ever accepted twice by one session.
C3_NoReplay ==
    [][/\ ~hist'.replayed
       /\ (ret' # NoRet /\ ret'.pkt # NoPkt /\ ret'.s # 0 /\ <<ret'.s, ret'.c>> \in hist.accepted)
            => /\ ret'.res = "ExpiredCounter"
               /\ sessions' = sessions
               /\ hist'.accepted = hist.accepted]_vars
\* A receive returned ExpiredCounter for a counter its session had accepted.
C3_Witness ==
    /\ ret.res = "ExpiredCounter"
    /\ <<ret.s, ret.c>> \in hist.accepted

BothR1(s) ==
    /\ sessions[s].beta = "R1"
    /\ \E r \in Sess : /\ Owner(r) # Owner(s)
                       /\ sessions[r].beta = "R1"
                       /\ key_ref(sessions[r], FALSE).ek = key_ref(sessions[s], FALSE).ek
\* receive has just returned for a K1 that resolved to session s, the packets
\* that can have been that K1 are all the peer's K1 under the current keys and
\* ratchet, and its counter was new to the window.
PeerK1Step(s) ==
    LET st == sessions[s]
        k1s == {pkt \in net : pkt.type = "K1" /\ pkt.to = Owner(s) /\ pkt.c = ret'.c
                              /\ Lookup(Owner(s), pkt.kid) = s}
    IN  /\ ret' # ret /\ ret'.op = "K1" /\ ret'.s = s
        /\ k1s # {}
        /\ \A pkt \in k1s : /\ pkt.kid = key_ref(st, FALSE).recv_kid
                             /\ pkt.key = key_ref(st, FALSE).ek
                             /\ pkt.psk = RKey(st.ratchet_state1)
                             /\ pkt.nkid # 0
        /\ WindowCheck(st.window, ret'.c)

\* C8 as stated: with both peers in R1, the K1 of the original responder is
\* accepted by the original initiator, which moves to R2, and the K1 of the
\* original initiator is dropped by the original responder with OutOfSequence.
C8_ExResponderWins ==
    [][\A s \in Sess : (BothR1(s) /\ PeerK1Step(s)) =>
            IF sessions[s].was_bob
            THEN ret'.res = "OutOfSequence" /\ sessions'[s].beta = "R1"
            ELSE sessions'[s].beta = "R2"]_vars
\* C8 amended: with both peers in R1, the K1 of the original initiator is
\* accepted by the original responder (was_bob), which moves to R2 and answers
\* with K2, and the K1 of the original responder is dropped by the original
\* initiator with a natural OutOfSequence fault, leaving it in R1.
C8_ExInitiatorWins ==
    [][\A s \in Sess : (BothR1(s) /\ PeerK1Step(s)) =>
            IF sessions[s].was_bob
            THEN /\ sessions'[s].beta = "R2"
                 /\ ret'.res = "Control"
                 /\ \E pkt \in net' \ net : pkt.type = "K2"
            ELSE /\ ret'.res = "OutOfSequence" /\ ~ret'.unnatural
                 /\ sessions'[s] = sessions[s]]_vars
\* Both outcomes have happened: the original responder is in R2 having accepted
\* a K1, and the original initiator, still in R1, has just dropped the
\* responder's K1 with OutOfSequence.
C8_Witness ==
    /\ ret.op = "K1" /\ ret.res = "OutOfSequence" /\ ret.s = 1
    /\ sessions[1].beta = "R1" /\ ~sessions[1].was_bob
    /\ \E r \in BobSess : /\ sessions[r].beta = "R2" /\ sessions[r].was_bob
                          /\ key_ref(sessions[r], FALSE).ek = key_ref(sessions[1], FALSE).ek

\* The fields of a session the transitions of C6 may change only after the save.
Durable(st) == <<st.beta, st.ratchet_state1, st.ratchet_state2, st.keys, st.key_index>>
\* C6: in the receipt of X2, X3, K1 or K2, the session's first ratchet state is
\* replaced, and an X3, C1 or K2 packet is handed to send, only in a step in
\* which save_ratchet_state stored that new ratchet state; when the call
\* returns the storage error the automaton state, the ratchet states and the
\* key slots of every session are as before and nothing was sent.
C6_SaveBeforeTransition ==
    [][(ret' # ret /\ ret'.op \in {"X2", "X3", "K1", "K2"}) =>
        /\ \A s \in Sess :
              (sessions'[s].exists /\ sessions'[s].ratchet_state1 # sessions[s].ratchet_state1
                    /\ sessions'[s].ratchet_state1.t = "NonEmpty")
              => /\ store'[Owner(s)] # store[Owner(s)]
                 /\ store'[Owner(s)].state1 = sessions'[s].ratchet_state1
        /\ \A pkt \in net' \ net :
              pkt.type \in {"X3", "C1", "K2"} => store'[Peer(pkt.to)] # store[Peer(pkt.to)]
        /\ ret'.res = "StorageError" =>
              /\ \A s \in Sess : Durable(sessions'[s]) = Durable(sessions[s])
              /\ net' = net
              /\ store' = store]_vars
\* The responder answered a K1 under a ratchet state it has stored, and the
\* initiator's receipt of the K2 has just returned the storage error, leaving
\* it in R1 under the old ratchet state.
C6_Witness ==
    /\ ret.op = "K2" /\ ret.res = "StorageError" /\ ret.s = 1
    /\ sessions[1].beta = "R1" /\ sessions[1].ratchet_state1 = store["alice"].state1
    /\ \E r \in BobSess : /\ sessions[r].beta = "R2"
                          /\ sessions[r].ratchet_state1 = store["bob"].state1
                          /\ sessions[r].ratchet_state1 # sessions[1].ratchet_state1

\* receive has just returned an unnatural Byzantine fault raised inside the
\* transition of session s: FailedAuth for an X2 that reached received_x2_trans
\* in A1, or a fault of a K1 or K2 whose counter the window took in this step
\* (the outer AEAD check and the window update precede the transition).
InTransitionFault(s) ==
    /\ ret' # ret /\ ret'.s = s /\ ret'.unnatural
    /\ \/ ret'.op = "X2" /\ sessions[s].beta = "A1" /\ ret'.res = "FailedAuth"
       \/ /\ ret'.op \in {"K1", "K2"}
          /\ ret'.res \in {"FailedAuth", "InvalidPacket"}
          /\ <<s, ret'.c>> \in hist'.accepted \ hist.accepted
\* Session s is expired after the step: Null, and none of the kid_recv of its
\* key slots resolves to it.
ExpiredBy(s) ==
    /\ sessions'[s].beta = "Null"
    /\ \A i \in 0..1 : LET k == sessions[s].keys[i].recv_kid
                        IN  k # 0 => session_map'[Owner(s)][k] # s

C1_SingleConsumption == ~thr.twice

\* The key ids a session holds in its two key slots, and its liveness.
OwnKids(s) == {sessions[s].keys[i].recv_kid : i \in 0..1} \ {0}
Live(s) == sessions[s].exists /\ sessions[s].beta # "Null"
\* A call of thread t on an unassociated X3 leaves received_x3_trans in this step.
X3Completes(t) == thr.at[t].pc = "removed" /\ thr'.at[t].pc = "idle"

Crossed == sessions[1].beta = "S2" /\ sessions[1].timeout_timer = TimerMin
\* Both peers are back in S2 under the keys of a rekey exchange.
Rekeyed ==
    \A s \in {1, 2} : sessions[s].beta = "S2" /\ key_ref(sessions[s], FALSE).ek > 1

\* C7: rekey under load.  Alice keeps sending payloads with service called
\* between her sends, service is prompt, no callback fails and every packet is
\* delivered once, in order, before the clock advances twice.  Then neither
\* session expires; once alice's send counter crossed the rekey limit in S2, the
\* exchange completes with both peers in S2 under new keys; and every payload
\* that is delivered is decrypted.
C7_RekeyUnderLoad ==
    /\ [][\A s \in {1, 2} : sessions[s].beta # "Null" => sessions'[s].beta # "Null"]_vars
    /\ [][(ret' # ret /\ ret'.op = "DATA") => ret'.res = "Data"]_vars
    /\ Crossed ~> Rekeyed

\* A packet of type op with counter c, sealed under a key of one of the two key
\* slots of session s, was sent to the owner of s.
Authentic(s, op, c) ==
    \E pkt \in net :
        /\ pkt.type = op /\ pkt.to = Owner(s) /\ pkt.c = c
        /\ pkt.key # 0
        /\ pkt.key \in {sessions[s].keys[0].ek, sessions[s].keys[1].ek}
\* The state check of the handler of packet type op passes in session state st.
StateCheck(st, op) ==
    IF op = "C2" THEN st.beta = "S1"
    ELSE IF op = "D" THEN st.beta = "A3"
    ELSE IF op = "K1" THEN should_rekey_as_bob(st)
    ELSE IF op = "K2" THEN st.beta = "R1"
    ELSE TRUE

\* C11: the anti-replay window of a session changes only in a receive call on a
\* packet of a counter-window type that resolved to the session, whose state
\* check passed and whose AEAD tag verified under a key of the session, and it
\* changes to the window updated with that packet's counter; a receive that
\* returns ExpiredCounter (the pre-filter), InvalidPacket (length),
\* UnknownLocalKeyId or a natural OutOfSequence (key id, state) leaves the window
\* as it was, and so does a FailedAuth (the tag) other than the one of a K1 or K2
\* whose tag verified and whose Noise payload then failed, expiring the session.
C11_WindowAfterAead ==
    [][\A s \in Sess :
        /\ sessions'[s].window # sessions[s].window =>
            /\ ret' # ret /\ ret'.s = s
            /\ ret'.op \in PACKET_TYPE_USES_COUNTER_RANGE
            /\ sessions'[s].window = WindowUpdate(sessions[s].window, ret'.c)
            /\ WindowCheck(sessions[s].window, ret'.c)
            /\ StateCheck(sessions[s], ret'.op)
            /\ Authentic(s, ret'.op, ret'.c)
        /\ (ret' # ret /\ ret'.s = s /\ ret'.op \in PACKET_TYPE_USES_COUNTER_RANGE) =>
            /\ ret'.res \in {"ExpiredCounter", "InvalidPacket", "UnknownLocalKeyId"}
                    => sessions'[s].window = sessions[s].window
            /\ (ret'.res = "OutOfSequence" /\ ~ret'.unnatural)
                    => sessions'[s].window = sessions[s].window
            /\ (ret'.res = "FailedAuth" /\ (ret'.op \notin {"K1", "K2"} \/ sessions'[s].beta # "Null"))
                    => sessions'[s].window = sessions[s].window
      ]_vars
\* Reached: receive returned FailedAuth for a packet of a counter-window type
\* whose counter the window of the session still accepts afterwards, in a
\* session whose window has already advanced.
C11_Witness ==
    /\ ret.op \in PACKET_TYPE_USES_COUNTER_RANGE /\ ret.res = "FailedAuth" /\ ret.s # 0
    /\ sessions[ret.s].window # WindowNew
    /\ WindowCheck(sessions[ret.s].window, ret.c)

Greenfield ==
    /\ hist.honest.on /\ hist.honest.ticks = 0
    /\ \A pkt \in net : pkt.type # "DATA"
Emitted(type) == {pkt \in net : pkt.type = type}
AllReceived == net # {} /\ \A pkt \in net : pkt \in hist.honest.seen
C14_Greenfield ==
    Greenfield =>
        /\ \A pkt \in net : pkt.type \in {"X1", "X2", "X3", "C1", "C2"}
        /\ \A type \in {"X1", "X2", "X3", "C1", "C2"} : Cardinality(Emitted(type)) <= 1
        /\ Emitted("X2") # {} => Emitted("X1") # {}
        /\ Emitted("X3") # {} => Emitted("X2") # {}
        /\ Emitted("C1") # {} => Emitted("X3") # {}
        /\ Emitted("C2") # {} => Emitted("C1") # {}
        /\ ret.op = "X3" => ret.res = "NewSession"
        /\ ret.op = "C1" => ret.res = "Established"
        /\ AllReceived =>
            /\ Cardinality(net) = 5
            /\ sessions[1].beta = "S2"
            /\ \E s \in Sess : Owner(s) = "bob" /\ sessions[s].beta = "S2"
\* The responder has received the C2 of a handshake without loss or delay.
C14_Witness ==
    /\ Greenfield /\ AllReceived
    /\ ret.op = "C2" /\ ret.res = "Control"

\* C15: receive returns Established only for a C1 addressed to the next slot's
\* key id of a session created by open (was_bob = false) that is in A3, and that
\* call takes the session to S2; a session that is in neither A1 nor A3 never
\* enters A1 or A3 again, so Established is returned at most once per session.
C15_EstablishedOnce ==
    [][/\ (ret' # ret /\ ret'.res = "Established") =>
            /\ ret'.op = "C1" /\ ret'.s # 0
            /\ ~sessions[ret'.s].was_bob
            /\ sessions[ret'.s].beta = "A3"
            /\ sessions'[ret'.s].beta = "S2"
            /\ ret'.pkt.kid = key_ref(sessions[ret'.s], TRUE).recv_kid
       /\ \A s \in Sess :
            (sessions[s].exists /\ sessions[s].beta \notin {"A1", "A3"})
                => sessions'[s].beta \notin {"A1", "A3"}]_vars
\* The initiator's receive has returned Established and the session is in S2.
C15_Witness ==
    /\ ret.op = "C1" /\ ret.res = "Established"
    /\ ret.s # 0 /\ sessions[ret.s].beta = "S2" /\ ~sessions[ret.s].was_bob

\* A receive of a D packet that resolved to session s has returned.
ReceivedD(s) == ret' # ret /\ ret'.op = "D" /\ ret'.s = s
\* The D is for the pending handshake of s: it is addressed to the next slot's
\* kid_recv and s is in A3.
ForHandshake(s) ==
    /\ sessions[s].beta = "A3"
    /\ ret'.pkt.kid = key_ref(sessions[s], TRUE).recv_kid
\* C16 as stated: Rejected is returned only for a session in A3, which the
\* accepted D expires; a D received in another state, or addressed to a key id
\* other than the next slot's kid_recv, returns OutOfSequence and leaves the
\* session unchanged.
C16_RejectOnlyInA3 ==
    [][\A s \in Sess :
        /\ (ret' # ret /\ ret'.res = "Rejected" /\ ret'.s = s) =>
            /\ ret'.op = "D" /\ ForHandshake(s) /\ ExpiredBy(s)
        /\ (ReceivedD(s) /\ ~ForHandshake(s)) =>
            /\ ret'.res = "OutOfSequence"
            /\ sessions'[s] = sessions[s]]_vars

\* C16 amended: Rejected is returned only for a D addressed to the next slot's
\* kid_recv of a session in A3, and that D expires the session; any other D that
\* resolves to a session leaves the session unchanged and returns
\* ExpiredCounter when its counter fails the window check of receive,
\* otherwise InvalidPacket when its length is wrong, otherwise OutOfSequence.
C16_RejectAmended ==
    [][\A s \in Sess :
        /\ (ret' # ret /\ ret'.res = "Rejected" /\ ret'.s = s) =>
            /\ ret'.op = "D" /\ ForHandshake(s) /\ ExpiredBy(s)
        /\ (ReceivedD(s) /\ ~ForHandshake(s)) =>
            /\ sessions'[s] = sessions[s]
            /\ session_map' = session_map
            /\ IF ~WindowCheck(sessions[s].window, ret'.c)
               THEN ret'.res = "ExpiredCounter"
               ELSE ret'.res \in {"InvalidPacket", "OutOfSequence"}]_vars
\* A D was accepted: Rejected was returned and the session is Null.
C16_Witness ==
    /\ ret.op = "D" /\ ret.res = "Rejected"
    /\ ret.s # 0 /\ sessions[ret.s].beta = "Null"

\* C17: send on a session in Null returns SessionExpired and on one in A1 or A3
\* returns SessionNotEstablished, and neither changes the session, encrypts or
\* emits a packet; send on a session in S1, S2, R1 or R2 returns Ok, takes the
\* send counter c, and emits a DATA packet sealed at c under the current key
\* slot and addressed to that slot's kid_send.
CurrentSlot(st) == st.keys[st.key_index]
ResendStep(s) ==
    /\ ret' = ret /\ service_pc'[Owner(s)] = "loop"
    /\ sessions[s].held /\ sessions[s].queue_timer < 0
    /\ sessions[s].timeout_timer > 0 /\ sessions[s].resend_timer <= 0
    /\ sessions'[s].resend_timer = ResendTime
    /\ sessions[s].beta \in {"A1", "A3", "S1", "R1", "R2"}
\* The packet type a state resends.
ResendType(beta) ==
    IF beta = "A1" THEN "X1" ELSE IF beta = "A3" THEN "X3"
    ELSE IF beta = "S1" THEN "C1" ELSE IF beta = "R1" THEN "K1" ELSE "K2"
\* The resend left the session as it was but for its timers and queue entry
\* (and, when counter is FALSE, its send counter).
Unperturbed(s, counter) ==
    LET st == sessions[s]  st1 == sessions'[s] IN
    /\ st1.beta = st.beta /\ st1.keys = st.keys /\ st1.key_index = st.key_index
    /\ st1.ratchet_state1 = st.ratchet_state1 /\ st1.ratchet_state2 = st.ratchet_state2
    /\ st1.timeout_timer = st.timeout_timer
    /\ st1.key_creation_counter = st.key_creation_counter
    /\ st1.window = st.window
    /\ session_map' = session_map /\ store' = store
    /\ counter => st1.send_counter = st.send_counter
    /\ \E pkt \in net' : pkt.type = ResendType(st.beta) /\ pkt.to = Peer(Owner(s))
\* C18 as stated: a resend re-emits the packet of the state and leaves the
\* automaton state, the key slots, the ratchet states, the send counter, the
\* timeout deadline and the session map as they were.
C18_IdempotentResend ==
    [][\A s \in Sess : ResendStep(s) => Unperturbed(s, TRUE)]_vars
\* C18 amended: the same, except that a resend of C1, K1 or K2 takes the send
\* counter as the nonce of the packet it emits and increments it; a resend of X1
\* or X3 emits the stored packet and leaves the send counter alone.
C18_ResendTakesCounter ==
    [][\A s \in Sess : ResendStep(s) =>
        LET st == sessions[s] IN
        /\ Unperturbed(s, FALSE)
        /\ IF st.beta \in {"A1", "A3"}
           THEN /\ sessions'[s].send_counter = st.send_counter
                /\ net' = net
           ELSE /\ sessions'[s].send_counter = NextSendCounter(st.send_counter)
                /\ \E pkt \in net' \ net :
                    /\ pkt.type = ResendType(st.beta) /\ pkt.c = st.send_counter
                    /\ pkt.key = CurrentSlot(st).ek]_vars
\* A K1 was resent: the same key sealed a K1 at two counters.
C18_Witness ==
    \E p \in Ctx, ek \in 1..MaxEpoch, c \in 0..MaxCounter, d \in 1..MaxCounter :
        {Enc(p, ek, "K1", c), Enc(p, ek, "K1", c + d)} \subseteq enc_log

\* The guards of one thread, oldest first, follow the declared order.
Ordered(held) ==
    \A i, j \in 1..Len(held) :
        i < j /\ Ranked(held[i].class) /\ Ranked(held[j].class)
            => Rank(held[i].class) < Rank(held[j].class)

\* Some threads wait for locks that only threads among them hold.
Deadlocked ==
    \E T \in SUBSET Threads \ {{}} :
        \A t \in T : /\ Waiting(t, "acq")
                     /\ Holders(AtStep(t)) # {}
                     /\ Holders(AtStep(t)) \subseteq T

\* C19: a call that holds more than one of session_queue, state_machine_lock,
\* state and session_map took them in that order, and no set of concurrent
\* calls on the context waits on itself.
C19_LockOrder ==
    /\ \A t \in Threads : Ordered(thr.lk[t].held)
    /\ ~Deadlocked

\* A received C1 moves session s into S2 in this step.
ConfirmedByC1(s) ==
    /\ ret' # ret /\ ret'.op = "C1" /\ ret'.s = s
    /\ sessions[s].beta # "S2" /\ sessions'[s].beta = "S2"

\* C20: a ratchet_state1 a session takes on is the one save_ratchet_state has
\* just persisted as state1; a ratchet_state2 it takes on is the ratchet_state1
\* it had before; and once a received C1 has moved the session into S2 its
\* ratchet_state2 is absent in memory and in the persisted pair.
C20_RatchetPair ==
    [][\A s \in Sess :
        /\ sessions'[s].exists /\ sessions'[s].beta # "Null"
           /\ sessions'[s].ratchet_state1 # sessions[s].ratchet_state1
              => store'[Owner(s)].state1 = sessions'[s].ratchet_state1
        /\ sessions[s].exists /\ sessions'[s].beta # "Null"
           /\ sessions'[s].ratchet_state2 # sessions[s].ratchet_state2
              => \/ sessions'[s].ratchet_state2 = RNull
                 \/ /\ sessions'[s].ratchet_state2 = sessions[s].ratchet_state1
                    /\ sessions'[s].ratchet_state1 # sessions[s].ratchet_state1
        /\ ConfirmedByC1(s)
              => /\ sessions'[s].ratchet_state2 = RNull
                 /\ store'[Owner(s)].state2 = RNull
                 /\ store'[Owner(s)].state1 = sessions'[s].ratchet_state1]_vars

\* A C1 has just established a session: it is in S2 with no ratchet_state2,
\* in memory or persisted.
C20_Witness ==
    /\ ret.op = "C1" /\ ret.res = "Established"
    /\ sessions[ret.s].beta = "S2"
    /\ sessions[ret.s].ratchet_state2 = RNull
    /\ store[Owner(ret.s)] = [state1 |-> sessions[ret.s].ratchet_state1, state2 |-> RNull]

\* C21: once the packet that confirms a rekey has been received (the session
\* is back in S2), the slot the rekey replaced is discarded: a payload is
\* accepted only on the current slot's kid_recv.
C21_OldSlotDiscarded ==
    (ret.op = "DATA" /\ ret.res = "Data" /\ sessions[ret.s].beta = "S2")
        => ret.pkt.kid = key_ref(sessions[ret.s], FALSE).recv_kid

\* The send callback was handed packets of these types in this step.
SentTypes == {q.type : q \in net' \ net}

\* C22: an X1 answered under the Challenge policy without a validating response
\* (a natural FailedAuth) puts only a CHALLENGE on the wire and allocates no
\* StateB2; an X1 dropped by policy (Rejected) sends and allocates nothing; and
\* an X2 is emitted or a StateB2 stored only by a call that returns Unassociated.
C22_ChallengeFirst ==
    [][(ret' # ret /\ ret'.op = "X1") =>
        /\ (ret'.res = "FailedAuth" /\ ~ret'.unnatural)
              => /\ net' = net \cup {challenge_packet(ret'.pkt)}
                 /\ SentTypes \subseteq {"CHALLENGE"}
                 /\ cache' = cache /\ nextEpoch' = nextEpoch
        /\ ret'.res = "Rejected"
              => net' = net /\ cache' = cache /\ nextEpoch' = nextEpoch
        /\ ("X2" \in SentTypes \/ cache' # cache \/ nextEpoch' # nextEpoch)
              => ret'.res = "Unassociated"]_vars
\* A hello was answered with a CHALLENGE while bob's cache was still empty, and
\* the CHALLENGE is on the wire.
C22_Witness ==
    /\ ret.op = "X1" /\ ret.res = "FailedAuth" /\ ~ret.unnatural
    /\ challenge_packet(ret.pkt) \in net
    /\ \A i \in Slots : cache[i] = NoSlot
    /\ ~\E q \in net : q.type = "X2"

\* C23: a receive of an X2, X3, K1, K2 or C1 that returns a storage error emits
\* no packet and leaves the session map and, of the session it was for, the
\* automaton state, both ratchet states, the key slots and the counter window
\* as they were.
C23_StorageErrorAtomic ==
    [][(ret' # ret /\ ret'.res = "StorageError" /\ ret'.op \in {"X2", "X3", "K1", "K2", "C1"}) =>
        /\ net' = net
        /\ session_map' = session_map
        /\ \A s \in Sess :
              /\ sessions'[s].exists = sessions[s].exists
              /\ sessions'[s].beta = sessions[s].beta
              /\ sessions'[s].ratchet_state1 = sessions[s].ratchet_state1
              /\ sessions'[s].ratchet_state2 = sessions[s].ratchet_state2
              /\ sessions'[s].keys = sessions[s].keys
              /\ sessions'[s].key_index = sessions[s].key_index
              /\ sessions'[s].window = sessions[s].window]_vars

\* C24: once the last strong handle of a session is released, a receive
\* addressed to a key id the session had registered does not reach it (it ends
\* in a natural UnknownLocalKeyId fault and no session changes), and the only
\* later change to the session, the passing of time on its timers aside, is
\* service removing its timer-queue entry, with nothing sent; a service call
\* that finds the entry at the top of the queue and past its deadline removes it.
Dropped(s) == sessions[s].exists /\ ~sessions[s].held
\* A session's fields other than the time left on its timers.
Untimed(st) == [st EXCEPT !.timeout_timer = 0, !.resend_timer = 0, !.queue_timer = 0]
C24_DropCancels ==
    [][\A s \in Sess : Dropped(s) =>
        /\ (Untimed(sessions'[s]) # Untimed(sessions[s]) =>
                /\ sessions'[s] = [sessions[s] EXCEPT !.queued = FALSE]
                /\ sessions[s].queued
                /\ net' = net /\ session_map' = session_map)
        /\ (/\ ret' # ret /\ ret'.pkt # NoPkt /\ ret'.p = Owner(s)
            /\ ret'.pkt.kid \in hist.registered[s]
            /\ session_map[Owner(s)][ret'.pkt.kid] \in {0, s}
            => /\ ret'.s = 0 /\ ret'.res = "UnknownLocalKeyId" /\ ~ret'.unnatural
               /\ sessions' = sessions /\ session_map' = session_map)
        /\ (/\ vars' # vars /\ service_pc'[Owner(s)] = "loop"
            /\ QueueTop(Owner(s)) = {s} /\ sessions[s].queue_timer < 0
            => ~sessions'[s].queued)]_vars
\* C24 as stated: when a service call returns, no session dropped before it is
\* left in the timer queue.
C24_NextServiceRemoves ==
    ret.op = "service" =>
        \A s \in Sess : Dropped(s) /\ Owner(s) = ret.p => ~sessions[s].queued
C24_Witness ==
    \E s \in Sess :
        /\ Dropped(s) /\ ~sessions[s].queued
        /\ ret.pkt # NoPkt /\ ret.p = Owner(s) /\ ret.pkt.kid \in hist.registered[s]
        /\ ret.res = "UnknownLocalKeyId"

\* C25: at most one slot of the unassociated-handshake cache holds any given
\* local id.
C25_UniqueLocalId ==
    \A i, j \in Slots :
        cache[i].local_id # 0 /\ cache[i].local_id = cache[j].local_id => i = j

\* A step of service that runs the timers of session s after its timeout
\* deadline has passed.
TimeoutStep(s) ==
    /\ service_pc'[Owner(s)] = "loop" /\ sessions'[s] # sessions[s]
    /\ sessions[s].held /\ sessions[s].timeout_timer <= 0
\* The step re-opened session s: a new A1 under a kid_recv drawn anew for the
\* next slot (one no other entry of the map holds), the old one no longer
\* registered, and the new X1 as the only packet sent.
ReOpened(s) ==
    LET old == key_ref(sessions[s], TRUE).recv_kid
        new == key_ref(sessions'[s], TRUE).recv_kid
        map == session_map'[Owner(s)]
    IN  /\ sessions'[s].beta = "A1"
        /\ new # 0 /\ map[new] = s /\ (session_map[Owner(s)][new] = 0 \/ new = old)
        /\ (old # 0 /\ old # new => map[old] = 0)
        /\ \E pkt \in net' \ net : net' \ net = {pkt} /\ pkt.type = "X1" /\ pkt.nkid = new
        /\ sessions'[s].send_counter = sessions[s].send_counter
\* The step started a rekey of session s: R1, a fresh kid_recv registered, and
\* K1 as the only packet sent.
RekeyStarted(s) ==
    LET old == key_ref(sessions[s], TRUE).recv_kid
        new == key_ref(sessions'[s], TRUE).recv_kid
    IN  /\ sessions'[s].beta = "R1"
        /\ new # 0 /\ session_map'[Owner(s)][new] = s
        /\ (session_map[Owner(s)][new] = 0 \/ new = old)
        /\ \E pkt \in net' \ net : net' \ net = {pkt} /\ pkt.type = "K1" /\ pkt.nkid = new
        /\ sessions'[s].send_counter = sessions[s].send_counter + 1
\* The step expired session s and sent nothing.
TimedOut(s) == sessions'[s].beta = "Null" /\ net' = net
\* C26 as stated: past the timeout deadline service applies the timeout rule
\* alone: A1 and A3 re-open or expire, S2 starts a rekey, S1, R1 and R2 expire.
C26_TimeoutRule ==
    [][\A s \in Sess : TimeoutStep(s) =>
        /\ sessions[s].beta \in {"A1", "A3"} => ReOpened(s) \/ TimedOut(s)
        /\ sessions[s].beta = "S2" => RekeyStarted(s)
        /\ sessions[s].beta \in {"S1", "R1", "R2"} => TimedOut(s)]_vars
\* C26: past the timeout deadline service applies the timeout rule alone: A1 and
\* A3 re-open or expire, S2 starts a rekey or expires when the key agreement of
\* the rekey fails, S1, R1 and R2 expire.
C26_TimeoutRuleOrExpire ==
    [][\A s \in Sess : TimeoutStep(s) =>
        /\ sessions[s].beta \in {"A1", "A3"} => ReOpened(s) \/ TimedOut(s)
        /\ sessions[s].beta = "S2" => RekeyStarted(s) \/ TimedOut(s)
        /\ sessions[s].beta \in {"S1", "R1", "R2"} => TimedOut(s)]_vars
C26_Witness ==
    \E s \in Sess :
        /\ service_pc[Owner(s)] = "loop" /\ sessions[s].beta = "R1"
        /\ sessions[s].timeout_timer = RekeyTimeout /\ sessions[s].resend_timer = ResendTime
        /\ \E pkt \in net : pkt.type = "K1" /\ pkt.nkid = key_ref(sessions[s], TRUE).recv_kid

\* C27: an accepted C1 addressed to the next slot's kid_recv in A3 or R2 flips
\* key_index, clears ratchet_state2 with its deletion persisted, moves the
\* session to S2 and sends C2; any other C1 leaves the automaton state and
\* key_index as they were, and when accepted is answered with C2 alone.
C27_KeyConfirm ==
    [][ret' # ret /\ ret'.op = "C1" /\ ret'.s # 0 =>
        LET s == ret'.s
            p == Owner(s)
            st == sessions[s]
            new == sessions'[s]
            accepted == ret'.res \in {"Established", "Control"}
            advances == /\ ret'.pkt.kid = key_ref(st, TRUE).recv_kid
                        /\ st.beta \in {"A3", "R2"}
            acked == \E c2 \in net' \ net :
                        /\ net' \ net = {c2} /\ c2.type = "C2"
                        /\ c2.kid = key_ref(new, FALSE).send_kid
        IN  /\ accepted /\ advances =>
                /\ new.key_index = 1 - st.key_index
                /\ new.ratchet_state2 = RNull
                /\ (st.ratchet_state2 # RNull =>
                        store'[p] = [state1 |-> st.ratchet_state1, state2 |-> RNull])
                /\ new.beta = "S2"
                /\ acked
            /\ ~advances => new.beta = st.beta /\ new.key_index = st.key_index
            /\ accepted /\ ~advances => acked /\ store' = store]_vars
C27_Witness ==
    /\ ret.op = "C1" /\ ret.res = "Established" /\ ret.s # 0
    /\ sessions[ret.s].beta = "S2"
    /\ ret.pkt.kid = key_ref(sessions[ret.s], FALSE).recv_kid
    /\ sessions[ret.s].ratchet_state2 = RNull

Matched(st, psk) ==
    IF psk = RKey(st.ratchet_state1) THEN st.ratchet_state1
    ELSE IF st.ratchet_state2 # RNull /\ psk = RKey(st.ratchet_state2) THEN st.ratchet_state2
    ELSE IF psk = 0 THEN REmpty
    ELSE RNull
\* The all-zero key is used as the third candidate.
Downgraded(st, psk) ==
    /\ psk = 0 /\ RKey(st.ratchet_state1) # 0
    /\ (st.ratchet_state2 = RNull \/ RKey(st.ratchet_state2) # 0)
X3Entry(pkt) == cache[CacheFind(cache, pkt.kid)]

\* The ratchet chosen at X1 is one of the two ratchets persisted for alice.
Persisted(zeta) ==
    \/ zeta.ratchet_state = store["bob"].state1
    \/ store["bob"].state2.t # "Null" /\ zeta.ratchet_state = store["bob"].state2

\* An authentic X3 reaches check_accept_session and restore_by_identity succeeds.
Judged(pkt, fault) ==
    /\ Lookup("bob", pkt.kid) = 0 /\ CacheFind(cache, pkt.kid) # 0
    /\ pkt.ep = X3Entry(pkt).b2 /\ pkt.att = X3Entry(pkt).att
    /\ fault \notin {"len", "tag", "storage"}

\* The application hands out session data, and the chosen ratchet is persisted
\* or is Empty while the responder allows the downgrade.
Acceptable(pkt, fault) ==
    /\ fault \notin {"reject", "reject_silent"}
    /\ \/ Persisted(X3Entry(pkt))
       \/ /\ fault \notin {"nodowngrade", "nodowngrade_silent"}
          /\ X3Entry(pkt).ratchet_state.t = "Empty"

\* C31: an X3 that reaches check_accept_session creates a session only when the
\* application returns session data and the ratchet chosen at X1 is persisted
\* for the identity, or is Empty with downgrade allowed; otherwise no session
\* appears in the session map, no ratchet is saved, FailedAuth is returned and
\* a D packet is sent unless responder_silently_rejects is set.
C31_AcceptOnlyKnownRatchet ==
    [][\A pkt \in net, fault \in X3Faults :
        (ReceiveX3(pkt, fault) /\ Judged(pkt, fault)) =>
            LET zeta == X3Entry(pkt)
                d == Pkt("D", "alice", zeta.kid_send, INIT_COUNTER, zeta.b2, 0, 0, 0, 0, 0, 0)
            IN  /\ <<sessions', session_map'>> # <<sessions, session_map>>
                        => Acceptable(pkt, fault)
                /\ ~Acceptable(pkt, fault) =>
                        /\ UNCHANGED <<sessions, session_map, store>>
                        /\ ret'.res = "FailedAuth"
                        /\ IF fault \in {"reject_silent", "nodowngrade_silent"}
                           THEN net' = net
                           ELSE d \in net']_vars

\* An X3 was refused with a D packet by a responder that holds a NonEmpty ratchet
\* for the identity which the initiator does not hold.
C31_Witness ==
    /\ ret.op = "X3" /\ ret.res = "FailedAuth"
    /\ \E pkt \in net : pkt.type = "D" /\ pkt.key = ret.pkt.ep
    /\ store["bob"].state1.t = "NonEmpty"
    /\ store["alice"].state1 # store["bob"].state1

\* ---------------------------------------------------------------- C32
\* C32: a receive of a DATA packet whose counter its session has already
\* accepted returns ExpiredCounter marked natural, whether the copy comes whole
\* or in fragments and whether or not another receive of it is under way.
C32_DuplicateNatural ==
    [][(ret' # ret /\ ret'.op = "DATA" /\ <<ret'.s, ret'.c>> \in hist.accepted)
            => (ret'.res = "ExpiredCounter" /\ ~ret'.unnatural)]_vars

\* ---------------------------------------------------------------- C33
\* Context::service of p runs one iteration of its loop on session s.
ServiceStep(p, s) == ServiceSession(p, s, TRUE)

\* The iterations of service: only a queue entry that is due is processed, and a
\* live session that was processed is queued under the earlier of its two new
\* timers, or is expired and no longer queued.
ServiceRequeues ==
    [][\A p \in Ctx, s \in Sess :
        (ServiceStep(p, s) /\ sessions[s].held) =>
            /\ sessions[s].queued /\ sessions[s].queue_timer <= 0
            /\ IF sessions'[s].beta = "Null"
               THEN ~sessions'[s].queued
               ELSE /\ sessions'[s].queued
                    /\ sessions'[s].queue_timer = next_timer(sessions'[s])
                    /\ sessions'[s].queue_timer > 0]_vars

\* A service call that has entered its loop returns.
ServiceReturns == \A p \in Ctx : (service_pc[p] = "loop") ~> (service_pc[p] = "idle")

\* C33 as stated: service processes every live queued session whose deadline is
\* at or before the current time and no other, requeues or expires each, and
\* returns. A processed session's new deadline is later than the current time,
\* so when service returns no live queued session has a deadline at or before it.
C33_ServiceDrains ==
    /\ ServiceRequeues
    /\ ServiceReturns
    /\ [][\A p \in Ctx : ServiceEnd(p) =>
            \A s \in Queued(p) : sessions[s].held => sessions[s].queue_timer > 0]_vars

\* C33 amended: the sessions processed are those whose deadline is earlier than
\* the current time; a session whose deadline is the current time is left for
\* the next call.
C33_ServiceDrainsOverdue ==
    /\ ServiceRequeues
    /\ ServiceReturns
    /\ [][\A p \in Ctx : ServiceEnd(p) =>
            \A s \in Queued(p) : sessions[s].held => sessions[s].queue_timer >= 0]_vars
    /\ [][\A p \in Ctx, s \in Sess : ServiceStep(p, s) => sessions[s].queue_timer < 0]_vars

\* service returned leaving queued a session whose deadline is the current time,
\* which an earlier call had processed and requeued on its way to R1.
C33_Witness ==
    /\ ret.op = "service"
    /\ \E s \in Queued(ret.p) :
            sessions[s].held /\ sessions[s].queue_timer = 0 /\ sessions[s].beta = "R1"

\* ---------------------------------------------------------------- C34
RECURSIVE SumLen(_)
\* The payload bytes carried by the fragments of the sequence frags.
SumLen(frags) ==
    IF frags = <<>> THEN 0 ELSE (Head(frags).len - HEADER_SIZE) + SumLen(Tail(frags))

\* The fragments handed to send are the first of the count fragments the claim
\* describes: numbered from 0 in order, each carrying the count, none longer
\* than the MTU, the first payload_len mod count of them one byte longer.
FragmentsAsClaimed(count) ==
    LET base == thr.payload_len \div count
        extra == thr.payload_len % count
    IN  \A k \in 1..Len(thr.sent) :
            /\ thr.sent[k].fragment_no = k - 1
            /\ thr.sent[k].fragment_count = count
            /\ thr.sent[k].len <= thr.mtu
            /\ thr.sent[k].len = HEADER_SIZE + base + (IF k - 1 < extra THEN 1 ELSE 0)

\* The call returns true after all count fragments, whose payloads sum to
\* payload_len, or false right after the fragment whose send returned false.
ReturnsAsClaimed(count) ==
    thr.pc = "done" =>
        IF thr.fail \in 1..count
        THEN ~thr.result /\ Len(thr.sent) = thr.fail
        ELSE thr.result /\ Len(thr.sent) = count /\ SumLen(thr.sent) = thr.payload_len

C35_NoEviction ==
    [][\A local_id \in LocalIds, b2 \in 1..MaxEpoch :
        cache_insert(local_id, b2) =>
            \A i \in Slots :
                (cache[i].local_id \notin {0, local_id} /\ cache[i].timeout >= 0)
                    => cache'[i] = cache[i]]_vars

\* ---------------------------------------------------------------- C36
\* The session that the receive call returning in this step acted on.
Transitioned(p) ==
    IF ret'.op = "X3" THEN session_map'[p][ret'.pkt.kid] ELSE ret'.s

\* C36: after every successful transition that saved a ratchet state (on X2,
\* X3, K1, K2 or C1) the session's pair (ratchet_state1, ratchet_state2) is the
\* pair (state1, state2) that was saved, whichever candidate matched on X2.
C36_MemoryMatchesStore ==
    [][(/\ ret' # ret /\ ret'.op \in {"X2", "X3", "K1", "K2", "C1"}
        /\ store' # store /\ sessions' # sessions) =>
            LET p == ret'.p
                s == Transitioned(p)
            IN  /\ s # 0
                /\ sessions'[s].ratchet_state1 = store'[p].state1
                /\ sessions'[s].ratchet_state2 = store'[p].state2]_vars

\* ---------------------------------------------------------------- C37
\* C37: of two copies of an X2 received concurrently for a session in A1, one
\* takes the session from A1 to A3 and emits X3; the copy whose call finds the
\* session no longer in A1 is dropped: the state, the timers, the session map
\* and the packets sent stay as they are.
C37_DuplicateX2Dropped ==
    [][\A t \in Threads :
        LET s == Lookup("alice", thr.at[t].pkt.kid)
        IN  (thr.at[t].pc = "x2" /\ thr'.at[t].pc = "idle") =>
                IF sessions[s].beta = "A1"
                THEN sessions'[s].beta = "A3" /\ X3Packet(sessions'[s]) \in net'
                ELSE sessions' = sessions /\ session_map' = session_map /\ net' = net]_vars

\* Both peers are in R1 under the same keys, each with its K1 sent.
BothRekeying == BothR1(1)
\* Both sessions are in S2 again, under the same new key pair and the same new
\* ratchet state, which both have stored.
RekeyedAlike ==
    \E r \in BobSess :
        /\ sessions[1].beta = "S2" /\ sessions[r].beta = "S2"
        /\ key_ref(sessions[1], FALSE).ek = key_ref(sessions[r], FALSE).ek
        /\ key_ref(sessions[1], FALSE).ek > 1
        /\ key_ref(sessions[1], FALSE).send_kid = key_ref(sessions[r], FALSE).recv_kid
        /\ key_ref(sessions[1], FALSE).recv_kid = key_ref(sessions[r], FALSE).send_kid
        /\ sessions[1].ratchet_state1 = sessions[r].ratchet_state1
        /\ sessions[1].ratchet_state1 # EstRatchet
\* C38: when both peers started a rekey together and no packet is lost, exactly
\* one of the two K1 packets is accepted (the one the original responder
\* receives; the original initiator drops the other and stays in R1), neither
\* session expires, and both sessions return to S2 holding the same new key pair
\* and the same new ratchet state.
C38_SimultaneousRekey ==
    /\ [][\A s \in Sess : (BothR1(s) /\ ret' # ret /\ ret'.op = "K1" /\ ret'.s = s) =>
            /\ (ret'.res = "Control") = sessions[s].was_bob
            /\ (sessions'[s].beta = "R2") = sessions[s].was_bob
            /\ sessions[s].was_bob \/ sessions'[s] = sessions[s]]_vars
    /\ [][\A s \in Sess : (sessions[s].exists /\ sessions[s].beta # "Null")
                            => sessions'[s].beta # "Null"]_vars
    /\ BothRekeying ~> RekeyedAlike
\* The crossing rekey has completed: the original initiator's receipt of the C2
\* has just returned with both sessions in S2 under the same new keys and
\* ratchet state, and the responder's K1 of the crossing is among the packets
\* sent.
C38_Witness ==
    /\ RekeyedAlike
    /\ ret.op = "C2" /\ ret.s = 1
    /\ \E a, b \in net : /\ a.type = "K1" /\ b.type = "K1" /\ a.to = "alice" /\ b.to = "bob"
                         /\ a.key = 1 /\ b.key = 1

\* receive has just returned for an X3 addressed to key id k that resolved to
\* no session.
X3For(k) ==
    /\ ret' # ret /\ ret'.op = "X3" /\ ret'.pkt.kid = k
    /\ Lookup("bob", k) = 0
InCacheService(t) == thr.at[t].pc \in {"svc_lock", "svc_store", "svc_skip"}
Occupied == \E i \in Slots : cache[i].local_id # 0
\* An entry whose timeout has passed is in the cache.
Expired(i) == cache[i].local_id # 0 /\ cache[i].timeout < 0
\* Thread t makes a service call when no service call is in progress: the step
\* is its swap of the flag.
ServiceCall(t) ==
    /\ thr.at[t].pc = "idle" /\ thr'.at[t].pc \in {"svc_lock", "svc_skip"}
    /\ \A u \in Threads : ~InCacheService(u)
\* C40 as stated: under any interleaving of the calls, whenever no service call
\* is in progress and a slot is occupied has_pending is true, and a service call
\* made then with an entry's timeout passed goes on to the scan that removes it.
C40_NeverFalselyNegative ==
    /\ []((Occupied /\ \A t \in Threads : ~InCacheService(t)) => has_pending)
    /\ [][\A t \in Threads :
            /\ (ServiceCall(t) /\ \E i \in Slots : Expired(i)) => thr'.at[t].pc = "svc_lock"
            /\ (thr.at[t].pc = "svc_lock" /\ thr'.at[t].pc # "svc_lock") =>
                    \A i \in Slots : Expired(i) => cache'[i] = NoSlot]_vars
\* C40 amended: whenever no service call is in progress and no insert call holds
\* the cache lock between its write of the slot and its store of the flag, an
\* occupied slot implies has_pending; a service call made then with an entry's
\* timeout passed goes on to the scan, and the scan removes every such entry.
C40_NeverFalselyNegativeUnlocked ==
    /\ []((Occupied /\ thr.lock = 0 /\ \A t \in Threads : ~InCacheService(t)) => has_pending)
    /\ [][\A t \in Threads :
            /\ (ServiceCall(t) /\ thr.lock = 0 /\ \E i \in Slots : Expired(i))
                    => thr'.at[t].pc = "svc_lock"
            /\ (thr.at[t].pc = "svc_lock" /\ thr'.at[t].pc # "svc_lock") =>
                    \A i \in Slots : Expired(i) => cache'[i] = NoSlot]_vars
\* A service call made between calls found the flag true with an expired entry
\* cached, and its scan has emptied the cache, while the other thread's last
\* service call had returned on a false flag.
C40_Witness ==
    /\ \E t, u \in Threads : /\ thr.at[t].last = "emptied" /\ thr.at[t].pc = "idle"
                             /\ thr.at[u].last = "skipped" /\ thr.at[u].pc = "idle"
    /\ ~Occupied /\ ~has_pending /\ thr.lock = 0
====
